---------------------------- MODULE Spec2Model ----------------------------
(***************************************************************************)
(* NSudoCreateProcess (NSudo Shared Library, NSudoAPI.cpp): the token      *)
(* escalation and launch pipeline, one action per primitive call, in the   *)
(* order of the source.  Program positions are named after the source      *)
(* line of the call ("L154" is the call at line 154 of NSudoAPI.cpp).      *)
(*                                                                         *)
(* The Mile* primitives are calls into the operating system.  Each call    *)
(* whose HRESULT the function tests either succeeds (S_OK) or fails with   *)
(* one of HResultFailures; a failed call has no effect and leaves its      *)
(* output parameter as it was.  MileCloseHandle, MileFreeMemory,           *)
(* MileDestroyEnvironmentBlock and MileSetCurrentThreadToken(nullptr),     *)
(* whose results the function never reads, release what they are given.    *)
(* MileSetPriorityClass and MileResumeThread, whose results are not read   *)
(* either, may fail.                                                       *)
(***************************************************************************)
EXTENDS Integers, Sequences, FiniteSets, TLC

\* ---------------------------------------------------------------- bounds
\* Sessions the caller may run in are 0..MaxSession.
MaxSession == 2
\* The command line is a sequence of at most MaxCmdLen words.
MaxCmdLen == 2
\* the handles given to one M2::CObject
MaxHandles == 4

\* ------------------------------------------------------ program constants
S_OK == 0
\* (HANDLE)-1
INVALID_HANDLE_VALUE == -1
\* SessionID = static_cast<DWORD>(-1): all bits set, no session has this id.
UnsetSessionID == -1
\* SECURITY_MANDATORY_SYSTEM_RID (0x4000)
MandatoryLabelRid == 16384
\* ABOVE_NORMAL_PRIORITY_CLASS (0x8000)
ProcessPriority == 32768
dwCreationFlags ==
    {"CREATE_SUSPENDED", "CREATE_UNICODE_ENVIRONMENT", "CREATE_NEW_CONSOLE"}

\* Failure statuses a primitive can report: E_ACCESSDENIED, E_OUTOFMEMORY.
HResultFailures == {-2147024891, -2147024882}
HResults == {S_OK} \cup HResultFailures

\* ------------------------------------------------- the operating system
\* Token objects that exist before the call, by index in tokens: the calling
\* process's token, the token of lsass.exe and the token of the
\* TrustedInstaller service (both run in session 0).  A fourth token is the
\* identity the calling thread may already impersonate at entry.
CallerProcessTokenId == 1
LsassProcessTokenId == 2
ServiceProcessTokenId == 3

Privileges == {"SeDebugPrivilege", "SeTcbPrivilege"}

Words == {"cmd.exe", "%USERPROFILE%", "%UNSET%"}

\* The environment of the calling process.
CallerEnvironment == [w \in {"%USERPROFILE%"} |-> "C:\\Users\\caller"]

\* The environment CreateEnvironmentBlock builds for the target token.
TargetEnvironment == [w \in {"%USERPROFILE%"} |-> "C:\\Windows\\system32\\config\\systemprofile"]

RECURSIVE SeqsUpTo(_, _)
SeqsUpTo(S, n) ==
    IF n = 0 THEN {<<>>}
    ELSE LET shorter == SeqsUpTo(S, n - 1)
         IN shorter \cup {Append(s, x) : s \in {t \in shorter : Len(t) = n - 1}, x \in S}

CommandLines == SeqsUpTo(Words, MaxCmdLen)

VARIABLES
    pc,           \* position in NSudoCreateProcess
    retval,       \* the HRESULT the call returned (meaningful once returned)
    local,        \* the function's local variables, by their source names
    CommandLine,  \* the parameter
    handles,      \* the handle table: handle h is handles[h]
    tokens,       \* the token objects
    threadToken,  \* the calling thread's impersonation token (0: none)
    memory,       \* the environment block and the expanded string
    process,      \* the process the call created, if any
    trace,        \* the primitive calls made so far, in order
    m_Object,     \* M2::CObject: the value the wrapper holds
    alive,        \* M2::CObject: constructed and not yet destroyed
    released,     \* how often TObjectDefiner::Close was given each value
    detached,     \* the handles Detach() returned and the caller still owns
    world,        \* two threads in NSudoCreateProcess: the handle table and
                  \* the tokens they share, and each thread's own state
    alone,        \* for each thread, the world in which it runs by itself
    scopeExit,    \* Mile::ScopeExitEventHandler: the guard objects
    lock,         \* the CCriticalSection or CSRWLock two threads contend for
    autoLocks,    \* for each thread, the try-lock guards in scope, innermost last
    singleton,    \* M2::CSingleton: m_Instance, m_SingletonCS, the instances made
    getters,      \* for each thread, its position in CSingleton::Get
    main,         \* NSudoMain: its position, its locals and its exit code
    g_ResourceManagement,  \* the global CNSudoResourceManagement object
    initializeCalls         \* the calls of Initialize made

pipelineVars == <<pc, retval, local, CommandLine, handles, tokens, threadToken,
                  memory, process, trace>>

wrapperVars == <<m_Object, alive, released, detached>>

threadsVars == <<world, alone>>

scopeVars == <<scopeExit>>

lockVars == <<lock, autoLocks>>

singletonVars == <<singleton, getters>>

mainVars == <<main>>

resourceVars == <<g_ResourceManagement, initializeCalls>>

libraryVars == <<scopeVars, lockVars, singletonVars>>

vars == <<pipelineVars, wrapperVars, threadsVars, libraryVars, mainVars,
          resourceVars>>

Token(origin, type, session, present, enabled, label, from) ==
    [origin |-> origin, type |-> type, level |-> "none", session |-> session,
     present |-> present, enabled |-> enabled, label |-> label, from |-> from]

InitialTokens(callerSession) ==
    << Token("caller", "TokenPrimary", callerSession,
             {"SeDebugPrivilege"}, {}, 12288, 0),
       Token("lsass", "TokenPrimary", 0,
             Privileges, {"SeTcbPrivilege"}, MandatoryLabelRid, 0),
       Token("service", "TokenPrimary", 0,
             Privileges, {}, MandatoryLabelRid, 0),
       Token("entry", "TokenImpersonation", callerSession,
             {}, {}, 12288, 0) >>

EntryThreadTokenId == Len(InitialTokens(0))

InitialLocals ==
    [hr |-> S_OK,
     SessionID |-> UnsetSessionID,
     CurrentProcessToken |-> INVALID_HANDLE_VALUE,
     DuplicatedCurrentProcessToken |-> INVALID_HANDLE_VALUE,
     OriginalLsassProcessToken |-> INVALID_HANDLE_VALUE,
     SystemToken |-> INVALID_HANDLE_VALUE,
     hToken |-> INVALID_HANDLE_VALUE,
     OriginalToken |-> INVALID_HANDLE_VALUE,
     lpEnvironment |-> "nullptr",
     ExpandedString |-> "nullptr",
     hProcess |-> 0,
     hThread |-> 0]

\* -------------------------------------------------------------- helpers
TokenOf(h) == handles[h].obj

NewHandle(kind, obj) ==
    Append(handles, [kind |-> kind, obj |-> obj, open |-> TRUE, closes |-> 0])

CloseHandle(H, h) ==
    IF h \in DOMAIN H
    THEN [H EXCEPT ![h].open = FALSE, ![h].closes = @ + 1]
    ELSE H

RECURSIVE CloseAll(_, _)
CloseAll(H, hs) ==
    IF hs = <<>> THEN H ELSE CloseAll(CloseHandle(H, Head(hs)), Tail(hs))

DuplicateToken(t, type, level) ==
    [t EXCEPT !.type = type, !.level = level]

\* ExpandEnvironmentStringsW: every %NAME% the environment defines is
\* replaced by its value, every other word is copied.
ExpandEnvironmentStrings(cmd, env) ==
    [i \in 1..Len(cmd) |-> IF cmd[i] \in DOMAIN env THEN env[cmd[i]] ELSE cmd[i]]

Event(op, r, arg) ==
    [op |-> op, hr |-> r, arg |-> arg, thread |-> threadToken]

Log(op, r, arg) == trace' = Append(trace, Event(op, r, arg))

Goto(label) == pc' = label /\ retval' = retval

\* "return hr;": the value is fixed, then the scope ends.
Return(r) == pc' = "ScopeExit" /\ retval' = r

NoEnvironment == [w \in {} |-> ""]

NoProcess ==
    [created |-> FALSE, token |-> 0, session |-> UnsetSessionID,
     commandLine |-> <<>>, environment |-> NoEnvironment, flags |-> {},
     desktop |-> "", suspended |-> FALSE, priority |-> 0, exited |-> FALSE]

\* No M2::CObject has been constructed.
NoWrapper ==
    /\ m_Object = INVALID_HANDLE_VALUE
    /\ alive = FALSE
    /\ released = [v \in {INVALID_HANDLE_VALUE} |-> 0]
    /\ detached = {}

\* No second thread is in NSudoCreateProcess.
NoThreads ==
    /\ world = <<>>
    /\ alone = <<>>

\* No Mile::ScopeExitEventHandler object is under observation.
NoScopes == scopeExit = <<>>

\* No lock of the M2 library is under observation.
NoLocks ==
    /\ lock = <<>>
    /\ autoLocks = <<>>

\* No M2::CSingleton is under observation.
NoSingleton ==
    /\ singleton = <<>>
    /\ getters = <<>>

\* No scope-exit guard, lock guard or singleton of the library is in use.
NoLibrary == NoScopes /\ NoLocks /\ NoSingleton

\* NSudoMain is not running and g_ResourceManagement is as constructed.
NoMain ==
    /\ main = <<>>
    /\ g_ResourceManagement = <<>>
    /\ initializeCalls = 0

Init ==
    /\ pc = "L154"
    /\ retval = S_OK
    /\ local = InitialLocals
    /\ CommandLine \in CommandLines
    /\ handles = <<>>
    /\ \E s \in 0..MaxSession : tokens = InitialTokens(s)
    /\ threadToken \in {0, EntryThreadTokenId}
    /\ memory = [environment |-> "none", environmentFrees |-> 0,
                 environmentValue |-> NoEnvironment,
                 string |-> "none", stringFrees |-> 0, stringValue |-> <<>>]
    /\ process = NoProcess
    /\ trace = <<>>
    /\ NoWrapper
    /\ NoThreads
    /\ NoLibrary
    /\ NoMain


\* What a primitive given handle h can report: it cannot succeed on a value
\* that is no open handle.
Outcomes(h) ==
    IF h \in DOMAIN handles /\ handles[h].open THEN HResults ELSE HResultFailures

\* "if (hr != S_OK) { return hr; }"
Checked(r, next) == IF r = S_OK THEN Goto(next) ELSE Return(r)

\* ------------------------------------------------- 4.1 CallerIdentity
\* hr = MileOpenCurrentProcessToken(MAXIMUM_ALLOWED, &CurrentProcessToken)
OpenCurrentProcessToken ==
    /\ pc = "L154"
    /\ \E r \in HResults :
        /\ IF r = S_OK
           THEN /\ handles' = NewHandle("token", CallerProcessTokenId)
                /\ local' = [local EXCEPT !.hr = r,
                                !.CurrentProcessToken = Len(handles) + 1]
           ELSE /\ handles' = handles
                /\ local' = [local EXCEPT !.hr = r]
        /\ Log("MileOpenCurrentProcessToken", r, 0)
        /\ Checked(r, "L161")
    /\ UNCHANGED <<CommandLine, tokens, threadToken, memory, process>>
    /\ UNCHANGED <<wrapperVars, threadsVars, libraryVars, mainVars, resourceVars>>

\* hr = MileDuplicateToken(CurrentProcessToken, ..., SecurityImpersonation,
\*                         TokenImpersonation, &DuplicatedCurrentProcessToken)
DuplicateCurrentProcessToken ==
    /\ pc = "L161"
    /\ \E r \in Outcomes(local.CurrentProcessToken) :
        /\ IF r = S_OK
           THEN /\ tokens' = Append(tokens,
                        [DuplicateToken(tokens[TokenOf(local.CurrentProcessToken)],
                                        "TokenImpersonation", "SecurityImpersonation")
                         EXCEPT !.from = TokenOf(local.CurrentProcessToken)])
                /\ handles' = NewHandle("token", Len(tokens) + 1)
                /\ local' = [local EXCEPT !.hr = r,
                                !.DuplicatedCurrentProcessToken = Len(handles) + 1]
           ELSE /\ tokens' = tokens
                /\ handles' = handles
                /\ local' = [local EXCEPT !.hr = r]
        /\ Log("MileDuplicateToken", r, local.CurrentProcessToken)
        /\ Checked(r, "L175")
    /\ UNCHANGED <<CommandLine, threadToken, memory, process>>
    /\ UNCHANGED <<wrapperVars, threadsVars, libraryVars, mainVars, resourceVars>>

\* MileGetPrivilegeValue with the test of hr left out.
GetPrivilegeValue_Unchecked ==
    /\ pc = "L175"
    /\ \E r \in HResults :
        /\ local' = [local EXCEPT !.hr = r]
        /\ Log("MileGetPrivilegeValue", r, 0)
        /\ Goto("L183")
    /\ UNCHANGED <<CommandLine, handles, tokens, threadToken, memory, process>>
    /\ UNCHANGED <<wrapperVars, threadsVars, libraryVars, mainVars, resourceVars>>

\* hr = MileGetPrivilegeValue(SE_DEBUG_NAME, &RawPrivilege.Luid)
GetPrivilegeValue ==
    /\ pc = "L175"
    /\ \E r \in HResults :
        /\ local' = [local EXCEPT !.hr = r]
        /\ Log("MileGetPrivilegeValue", r, 0)
        /\ Checked(r, "L183")
    /\ UNCHANGED <<CommandLine, handles, tokens, threadToken, memory, process>>
    /\ UNCHANGED <<wrapperVars, threadsVars, libraryVars, mainVars, resourceVars>>

\* hr = MileAdjustTokenPrivilegesSimple(DuplicatedCurrentProcessToken,
\*                                      &RawPrivilege, 1)
AdjustCurrentProcessTokenPrivileges ==
    /\ pc = "L183"
    /\ \E r \in Outcomes(local.DuplicatedCurrentProcessToken) :
        /\ IF r = S_OK
           THEN tokens' = [tokens EXCEPT
                    ![TokenOf(local.DuplicatedCurrentProcessToken)].enabled =
                        @ \cup {"SeDebugPrivilege"}]
           ELSE tokens' = tokens
        /\ local' = [local EXCEPT !.hr = r]
        /\ Log("MileAdjustTokenPrivilegesSimple", r,
               local.DuplicatedCurrentProcessToken)
        /\ Checked(r, "L192")
    /\ UNCHANGED <<CommandLine, handles, threadToken, memory, process>>
    /\ UNCHANGED <<wrapperVars, threadsVars, libraryVars, mainVars, resourceVars>>

\* hr = MileSetCurrentThreadToken(DuplicatedCurrentProcessToken)
SetThreadTokenToCurrentProcessToken ==
    /\ pc = "L192"
    /\ \E r \in Outcomes(local.DuplicatedCurrentProcessToken) :
        /\ IF r = S_OK
           THEN threadToken' = TokenOf(local.DuplicatedCurrentProcessToken)
           ELSE threadToken' = threadToken
        /\ local' = [local EXCEPT !.hr = r]
        /\ Log("MileSetCurrentThreadToken", r,
               local.DuplicatedCurrentProcessToken)
        /\ Checked(r, "L198")
    /\ UNCHANGED <<CommandLine, handles, tokens, memory, process>>
    /\ UNCHANGED <<wrapperVars, threadsVars, libraryVars, mainVars, resourceVars>>

\* hr = MileOpenCurrentThreadToken(MAXIMUM_ALLOWED, FALSE,
\*                                 &CurrentProcessToken)
\* The handle of the thread's token is stored over the process token's.
OpenCurrentThreadToken ==
    /\ pc = "L198"
    /\ \E r \in (IF threadToken = 0 THEN HResultFailures ELSE HResults) :
        /\ IF r = S_OK
           THEN /\ handles' = NewHandle("token", threadToken)
                /\ local' = [local EXCEPT !.hr = r,
                                !.CurrentProcessToken = Len(handles) + 1]
           ELSE /\ handles' = handles
                /\ local' = [local EXCEPT !.hr = r]
        /\ Log("MileOpenCurrentThreadToken", r, 0)
        /\ Checked(r, "L205")
    /\ UNCHANGED <<CommandLine, tokens, threadToken, memory, process>>
    /\ UNCHANGED <<wrapperVars, threadsVars, libraryVars, mainVars, resourceVars>>

\* hr = MileGetTokenInformation(CurrentProcessToken, TokenSessionId,
\*                              &SessionID, sizeof(DWORD), &ReturnLength)
GetTokenSessionId ==
    /\ pc = "L205"
    /\ \E r \in Outcomes(local.CurrentProcessToken) :
        /\ IF r = S_OK
           THEN local' = [local EXCEPT !.hr = r,
                    !.SessionID = tokens[TokenOf(local.CurrentProcessToken)].session]
           ELSE local' = [local EXCEPT !.hr = r]
        /\ Log("MileGetTokenInformation", r, local.CurrentProcessToken)
        /\ Checked(r, "L216")
    /\ UNCHANGED <<CommandLine, handles, tokens, threadToken, memory, process>>
    /\ UNCHANGED <<wrapperVars, threadsVars, libraryVars, mainVars, resourceVars>>

\* --------------------------------------------- 4.2 RootServiceIdentity
\* hr = MileOpenLsassProcessToken(MAXIMUM_ALLOWED, &OriginalLsassProcessToken)
OpenLsassProcessToken ==
    /\ pc = "L216"
    /\ \E r \in HResults :
        /\ IF r = S_OK
           THEN /\ handles' = NewHandle("token", LsassProcessTokenId)
                /\ local' = [local EXCEPT !.hr = r,
                                !.OriginalLsassProcessToken = Len(handles) + 1]
           ELSE /\ handles' = handles
                /\ local' = [local EXCEPT !.hr = r]
        /\ Log("MileOpenLsassProcessToken", r, 0)
        /\ Checked(r, "L224")
    /\ UNCHANGED <<CommandLine, tokens, threadToken, memory, process>>
    /\ UNCHANGED <<wrapperVars, threadsVars, libraryVars, mainVars, resourceVars>>

\* hr = MileDuplicateToken(OriginalLsassProcessToken, ...,
\*          SecurityImpersonation, TokenImpersonation, &SystemToken)
DuplicateLsassProcessToken ==
    /\ pc = "L224"
    /\ \E r \in Outcomes(local.OriginalLsassProcessToken) :
        /\ IF r = S_OK
           THEN /\ tokens' = Append(tokens,
                        [DuplicateToken(tokens[TokenOf(local.OriginalLsassProcessToken)],
                                        "TokenImpersonation", "SecurityImpersonation")
                         EXCEPT !.from = TokenOf(local.OriginalLsassProcessToken)])
                /\ handles' = NewHandle("token", Len(tokens) + 1)
                /\ local' = [local EXCEPT !.hr = r,
                                !.SystemToken = Len(handles) + 1]
           ELSE /\ tokens' = tokens
                /\ handles' = handles
                /\ local' = [local EXCEPT !.hr = r]
        /\ Log("MileDuplicateToken", r, local.OriginalLsassProcessToken)
        /\ Checked(r, "L236")
    /\ UNCHANGED <<CommandLine, threadToken, memory, process>>
    /\ UNCHANGED <<wrapperVars, threadsVars, libraryVars, mainVars, resourceVars>>

\* hr = MileAdjustTokenAllPrivileges(SystemToken, SE_PRIVILEGE_ENABLED)
AdjustSystemTokenAllPrivileges ==
    /\ pc = "L236"
    /\ \E r \in Outcomes(local.SystemToken) :
        /\ IF r = S_OK
           THEN tokens' = [tokens EXCEPT
                    ![TokenOf(local.SystemToken)].enabled =
                        tokens[TokenOf(local.SystemToken)].present]
           ELSE tokens' = tokens
        /\ local' = [local EXCEPT !.hr = r]
        /\ Log("MileAdjustTokenAllPrivileges", r, local.SystemToken)
        /\ Checked(r, "L244")
    /\ UNCHANGED <<CommandLine, handles, threadToken, memory, process>>
    /\ UNCHANGED <<wrapperVars, threadsVars, libraryVars, mainVars, resourceVars>>

\* MileSetCurrentThreadToken(SystemToken) with the test of hr left out.
SetThreadTokenToSystemToken_Unchecked ==
    /\ pc = "L244"
    /\ \E r \in Outcomes(local.SystemToken) :
        /\ IF r = S_OK
           THEN threadToken' = TokenOf(local.SystemToken)
           ELSE threadToken' = threadToken
        /\ local' = [local EXCEPT !.hr = r]
        /\ Log("MileSetCurrentThreadToken", r, local.SystemToken)
        /\ Goto("L250")
    /\ UNCHANGED <<CommandLine, handles, tokens, memory, process>>
    /\ UNCHANGED <<wrapperVars, threadsVars, libraryVars, mainVars, resourceVars>>

\* hr = MileSetCurrentThreadToken(SystemToken)
SetThreadTokenToSystemToken ==
    /\ pc = "L244"
    /\ \E r \in Outcomes(local.SystemToken) :
        /\ IF r = S_OK
           THEN threadToken' = TokenOf(local.SystemToken)
           ELSE threadToken' = threadToken
        /\ local' = [local EXCEPT !.hr = r]
        /\ Log("MileSetCurrentThreadToken", r, local.SystemToken)
        /\ Checked(r, "L250")
    /\ UNCHANGED <<CommandLine, handles, tokens, memory, process>>
    /\ UNCHANGED <<wrapperVars, threadsVars, libraryVars, mainVars, resourceVars>>

\* ------------------------------------------- 4.3 TargetServiceIdentity
\* MileOpenServiceProcessToken with the test of hr left out.
OpenServiceProcessToken_Unchecked ==
    /\ pc = "L250"
    /\ \E r \in HResults :
        /\ IF r = S_OK
           THEN /\ handles' = NewHandle("token", ServiceProcessTokenId)
                /\ local' = [local EXCEPT !.hr = r,
                                !.OriginalToken = Len(handles) + 1]
           ELSE /\ handles' = handles
                /\ local' = [local EXCEPT !.hr = r]
        /\ Log("MileOpenServiceProcessToken", r, 0)
        /\ Goto("L259")
    /\ UNCHANGED <<CommandLine, tokens, threadToken, memory, process>>
    /\ UNCHANGED <<wrapperVars, threadsVars, libraryVars, mainVars, resourceVars>>

\* hr = MileOpenServiceProcessToken(L"TrustedInstaller", MAXIMUM_ALLOWED,
\*                                  &OriginalToken)
OpenServiceProcessToken ==
    /\ pc = "L250"
    /\ \E r \in HResults :
        /\ IF r = S_OK
           THEN /\ handles' = NewHandle("token", ServiceProcessTokenId)
                /\ local' = [local EXCEPT !.hr = r,
                                !.OriginalToken = Len(handles) + 1]
           ELSE /\ handles' = handles
                /\ local' = [local EXCEPT !.hr = r]
        /\ Log("MileOpenServiceProcessToken", r, 0)
        /\ Checked(r, "L259")
    /\ UNCHANGED <<CommandLine, tokens, threadToken, memory, process>>
    /\ UNCHANGED <<wrapperVars, threadsVars, libraryVars, mainVars, resourceVars>>

\* hr = MileDuplicateToken(OriginalToken, ..., SecurityIdentification,
\*                         TokenPrimary, &hToken)
DuplicateServiceProcessToken ==
    /\ pc = "L259"
    /\ \E r \in Outcomes(local.OriginalToken) :
        /\ IF r = S_OK
           THEN /\ tokens' = Append(tokens,
                        [DuplicateToken(tokens[TokenOf(local.OriginalToken)],
                                        "TokenPrimary", "SecurityIdentification")
                         EXCEPT !.from = TokenOf(local.OriginalToken)])
                /\ handles' = NewHandle("token", Len(tokens) + 1)
                /\ local' = [local EXCEPT !.hr = r, !.hToken = Len(handles) + 1]
           ELSE /\ tokens' = tokens
                /\ handles' = handles
                /\ local' = [local EXCEPT !.hr = r]
        /\ Log("MileDuplicateToken", r, local.OriginalToken)
        /\ Checked(r, "L271")
    /\ UNCHANGED <<CommandLine, threadToken, memory, process>>
    /\ UNCHANGED <<wrapperVars, threadsVars, libraryVars, mainVars, resourceVars>>

\* The session is left as the duplicate got it from the service's token.
SetTokenSessionId_Missing ==
    /\ pc = "L271"
    /\ Goto("L281")
    /\ UNCHANGED <<local, CommandLine, handles, tokens, threadToken, memory,
                   process, trace>>
    /\ UNCHANGED <<wrapperVars, threadsVars, libraryVars, mainVars, resourceVars>>

\* hr = MileSetTokenInformation(hToken, TokenSessionId, &SessionID,
\*                              sizeof(DWORD))
SetTokenSessionId ==
    /\ pc = "L271"
    /\ \E r \in Outcomes(local.hToken) :
        /\ IF r = S_OK
           THEN tokens' = [tokens EXCEPT
                    ![TokenOf(local.hToken)].session = local.SessionID]
           ELSE tokens' = tokens
        /\ local' = [local EXCEPT !.hr = r]
        /\ Log("MileSetTokenInformation", r, local.hToken)
        /\ Checked(r, "L281")
    /\ UNCHANGED <<CommandLine, handles, threadToken, memory, process>>
    /\ UNCHANGED <<wrapperVars, threadsVars, libraryVars, mainVars, resourceVars>>

\* hr = MileAdjustTokenAllPrivileges(hToken, SE_PRIVILEGE_ENABLED)
AdjustTokenAllPrivileges ==
    /\ pc = "L281"
    /\ \E r \in Outcomes(local.hToken) :
        /\ IF r = S_OK
           THEN tokens' = [tokens EXCEPT
                    ![TokenOf(local.hToken)].enabled =
                        tokens[TokenOf(local.hToken)].present]
           ELSE tokens' = tokens
        /\ local' = [local EXCEPT !.hr = r]
        /\ Log("MileAdjustTokenAllPrivileges", r, local.hToken)
        /\ Checked(r, "L287")
    /\ UNCHANGED <<CommandLine, handles, threadToken, memory, process>>
    /\ UNCHANGED <<wrapperVars, threadsVars, libraryVars, mainVars, resourceVars>>

\* MileSetTokenMandatoryLabel with the test of hr left out.
SetTokenMandatoryLabel_Unchecked ==
    /\ pc = "L287"
    /\ \E r \in Outcomes(local.hToken) :
        /\ IF r = S_OK
           THEN tokens' = [tokens EXCEPT
                    ![TokenOf(local.hToken)].label = MandatoryLabelRid]
           ELSE tokens' = tokens
        /\ local' = [local EXCEPT !.hr = r]
        /\ Log("MileSetTokenMandatoryLabel", r, local.hToken)
        /\ Goto("L309")
    /\ UNCHANGED <<CommandLine, handles, threadToken, memory, process>>
    /\ UNCHANGED <<wrapperVars, threadsVars, libraryVars, mainVars, resourceVars>>

\* hr = MileSetTokenMandatoryLabel(hToken, MandatoryLabelRid)
SetTokenMandatoryLabel ==
    /\ pc = "L287"
    /\ \E r \in Outcomes(local.hToken) :
        /\ IF r = S_OK
           THEN tokens' = [tokens EXCEPT
                    ![TokenOf(local.hToken)].label = MandatoryLabelRid]
           ELSE tokens' = tokens
        /\ local' = [local EXCEPT !.hr = r]
        /\ Log("MileSetTokenMandatoryLabel", r, local.hToken)
        /\ Checked(r, "L309")
    /\ UNCHANGED <<CommandLine, handles, threadToken, memory, process>>
    /\ UNCHANGED <<wrapperVars, threadsVars, libraryVars, mainVars, resourceVars>>

\* ------------------------------- 4.4 EnvironmentBuilder, 4.5 ProcessLauncher
\* A failure leaves the function at once instead of falling to the releases
\* that follow the block.
Nested_LeavesOnFailure(r, inner, after) ==
    IF r = S_OK THEN Goto(inner) ELSE Goto("L349")

\* "if (hr == S_OK) { ... }": the block is entered on success and skipped
\* otherwise; nothing returns from inside it.
Nested(r, inner, after) == IF r = S_OK THEN Goto(inner) ELSE Goto(after)

\* hr = MileCreateEnvironmentBlock(&lpEnvironment, hToken, TRUE)
CreateEnvironmentBlock ==
    /\ pc = "L309"
    /\ \E r \in Outcomes(local.hToken) :
        /\ IF r = S_OK
           THEN /\ memory' = [memory EXCEPT !.environment = "allocated",
                                 !.environmentValue = TargetEnvironment]
                /\ local' = [local EXCEPT !.hr = r, !.lpEnvironment = "block"]
           ELSE /\ memory' = memory
                /\ local' = [local EXCEPT !.hr = r]
        /\ Log("MileCreateEnvironmentBlock", r, local.hToken)
        /\ Nested(r, "L312", "L349")
    /\ UNCHANGED <<CommandLine, handles, tokens, threadToken, process>>
    /\ UNCHANGED <<wrapperVars, threadsVars, libraryVars, mainVars, resourceVars>>

\* The command line expanded against the block lpEnvironment points to.
ExpandCommandLine_AgainstBlock ==
    /\ pc = "L312"
    /\ \E r \in HResults :
        /\ IF r = S_OK
           THEN /\ memory' = [memory EXCEPT !.string = "allocated",
                                 !.stringValue = ExpandEnvironmentStrings(
                                                    CommandLine, memory.environmentValue)]
                /\ local' = [local EXCEPT !.hr = r, !.ExpandedString = "buffer"]
           ELSE /\ memory' = memory
                /\ local' = [local EXCEPT !.hr = r]
        /\ Log("MileExpandEnvironmentStringsWithMemory", r, 0)
        /\ Nested(r, "L317", "L346")
    /\ UNCHANGED <<CommandLine, handles, tokens, threadToken, process>>
    /\ UNCHANGED <<wrapperVars, threadsVars, libraryVars, mainVars, resourceVars>>

\* hr = MileExpandEnvironmentStringsWithMemory(CommandLine, &ExpandedString)
ExpandCommandLine ==
    /\ pc = "L312"
    /\ \E r \in HResults :
        /\ IF r = S_OK
           THEN /\ memory' = [memory EXCEPT !.string = "allocated",
                                 !.stringValue = ExpandEnvironmentStrings(
                                                    CommandLine, CallerEnvironment)]
                /\ local' = [local EXCEPT !.hr = r, !.ExpandedString = "buffer"]
           ELSE /\ memory' = memory
                /\ local' = [local EXCEPT !.hr = r]
        /\ Log("MileExpandEnvironmentStringsWithMemory", r, 0)
        /\ Nested(r, "L317", "L346")
    /\ UNCHANGED <<CommandLine, handles, tokens, threadToken, process>>
    /\ UNCHANGED <<wrapperVars, threadsVars, libraryVars, mainVars, resourceVars>>

\* hr = MileCreateProcessAsUser(hToken, nullptr, ExpandedString, nullptr,
\*          nullptr, FALSE, dwCreationFlags, lpEnvironment, CurrentDirectory,
\*          &StartupInfo, &ProcessInfo)
CreateProcessAsUser ==
    /\ pc = "L317"
    /\ \E r \in Outcomes(local.hToken) :
        /\ IF r = S_OK
           THEN /\ process' = [created |-> TRUE,
                               token |-> TokenOf(local.hToken),
                               session |-> tokens[TokenOf(local.hToken)].session,
                               commandLine |-> memory.stringValue,
                               environment |-> memory.environmentValue,
                               flags |-> dwCreationFlags,
                               desktop |-> "WinSta0\\Default",
                               suspended |-> "CREATE_SUSPENDED" \in dwCreationFlags,
                               priority |-> 32,
                               exited |-> FALSE]
                /\ handles' = handles \o
                        << [kind |-> "process", obj |-> 0, open |-> TRUE, closes |-> 0],
                           [kind |-> "thread", obj |-> 0, open |-> TRUE, closes |-> 0] >>
                /\ local' = [local EXCEPT !.hr = r,
                                !.hProcess = Len(handles) + 1,
                                !.hThread = Len(handles) + 2]
           ELSE /\ process' = process
                /\ handles' = handles
                /\ local' = [local EXCEPT !.hr = r]
        /\ Log("MileCreateProcessAsUser", r, local.hToken)
        /\ Nested(r, "L331", "L343")
    /\ UNCHANGED <<CommandLine, tokens, threadToken, memory>>
    /\ UNCHANGED <<wrapperVars, threadsVars, libraryVars, mainVars, resourceVars>>

\* The call to MileSetPriorityClass left out.
SetPriorityClass_Missing ==
    /\ pc = "L331"
    /\ Goto("L334")
    /\ UNCHANGED <<local, CommandLine, handles, tokens, threadToken, memory,
                   process, trace>>
    /\ UNCHANGED <<wrapperVars, threadsVars, libraryVars, mainVars, resourceVars>>

\* MileSetPriorityClass(ProcessInfo.hProcess, ProcessPriority): result unread
SetPriorityClass ==
    /\ pc = "L331"
    /\ \E r \in Outcomes(local.hProcess) :
        /\ IF r = S_OK
           THEN process' = [process EXCEPT !.priority = ProcessPriority]
           ELSE process' = process
        /\ Log("MileSetPriorityClass", r, local.hProcess)
    /\ Goto("L334")
    /\ UNCHANGED <<local, CommandLine, handles, tokens, threadToken, memory>>
    /\ UNCHANGED <<wrapperVars, threadsVars, libraryVars, mainVars, resourceVars>>

\* MileResumeThread with its result tested: the function returns it when the
\* call fails.
ResumeThread_Checked ==
    /\ pc = "L334"
    /\ \E r \in Outcomes(local.hThread) :
        /\ IF r = S_OK
           THEN /\ process' = [process EXCEPT !.suspended = FALSE]
                /\ Goto("L336")
           ELSE /\ process' = process
                /\ pc' = "ScopeExit"
                /\ retval' = r
        /\ Log("MileResumeThread", r, local.hThread)
    /\ UNCHANGED <<local, CommandLine, handles, tokens, threadToken, memory>>
    /\ UNCHANGED <<wrapperVars, threadsVars, libraryVars, mainVars, resourceVars>>

\* MileResumeThread(ProcessInfo.hThread, nullptr): result unread
ResumeThread ==
    /\ pc = "L334"
    /\ \E r \in Outcomes(local.hThread) :
        /\ IF r = S_OK
           THEN process' = [process EXCEPT !.suspended = FALSE]
           ELSE process' = process
        /\ Log("MileResumeThread", r, local.hThread)
    /\ Goto("L336")
    /\ UNCHANGED <<local, CommandLine, handles, tokens, threadToken, memory>>
    /\ UNCHANGED <<wrapperVars, threadsVars, libraryVars, mainVars, resourceVars>>

\* The wait with an INFINITE timeout: it returns once the process has exited.
WaitForSingleObject_Infinite ==
    /\ pc = "L336"
    /\ process.exited
    /\ Log("MileWaitForSingleObject", S_OK, local.hProcess)
    /\ Goto("L339")
    /\ UNCHANGED <<local, CommandLine, handles, tokens, threadToken, memory,
                   process>>
    /\ UNCHANGED <<wrapperVars, threadsVars, libraryVars, mainVars, resourceVars>>

\* MileWaitForSingleObject(ProcessInfo.hProcess, 0, FALSE, nullptr): the
\* timeout is 0, the call reports the state of the process and returns.
WaitForSingleObject ==
    /\ pc = "L336"
    /\ \E r \in Outcomes(local.hProcess) :
        Log("MileWaitForSingleObject", r, local.hProcess)
    /\ Goto("L339")
    /\ UNCHANGED <<local, CommandLine, handles, tokens, threadToken, memory,
                   process>>
    /\ UNCHANGED <<wrapperVars, threadsVars, libraryVars, mainVars, resourceVars>>

\* MileCloseHandle(ProcessInfo.hProcess)
CloseProcessHandle ==
    /\ pc = "L339"
    /\ handles' = CloseHandle(handles, local.hProcess)
    /\ Log("MileCloseHandle", S_OK, local.hProcess)
    /\ Goto("L340")
    /\ UNCHANGED <<local, CommandLine, tokens, threadToken, memory, process>>
    /\ UNCHANGED <<wrapperVars, threadsVars, libraryVars, mainVars, resourceVars>>

\* MileCloseHandle(ProcessInfo.hThread)
CloseThreadHandle ==
    /\ pc = "L340"
    /\ handles' = CloseHandle(handles, local.hThread)
    /\ Log("MileCloseHandle", S_OK, local.hThread)
    /\ Goto("L343")
    /\ UNCHANGED <<local, CommandLine, tokens, threadToken, memory, process>>
    /\ UNCHANGED <<wrapperVars, threadsVars, libraryVars, mainVars, resourceVars>>

\* MileFreeMemory(ExpandedString)
FreeExpandedString ==
    /\ pc = "L343"
    /\ memory' = [memory EXCEPT !.string = "freed", !.stringFrees = @ + 1]
    /\ Log("MileFreeMemory", S_OK, 0)
    /\ Goto("L346")
    /\ UNCHANGED <<local, CommandLine, handles, tokens, threadToken, process>>
    /\ UNCHANGED <<wrapperVars, threadsVars, libraryVars, mainVars, resourceVars>>

\* MileDestroyEnvironmentBlock(lpEnvironment)
DestroyEnvironmentBlock ==
    /\ pc = "L346"
    /\ memory' = [memory EXCEPT !.environment = "freed",
                     !.environmentFrees = @ + 1]
    /\ Log("MileDestroyEnvironmentBlock", S_OK, 0)
    /\ Goto("L349")
    /\ UNCHANGED <<local, CommandLine, handles, tokens, threadToken, process>>
    /\ UNCHANGED <<wrapperVars, threadsVars, libraryVars, mainVars, resourceVars>>

\* "return S_OK;" at the end of the function
ReturnSOK ==
    /\ pc = "L349"
    /\ Return(S_OK)
    /\ UNCHANGED <<local, CommandLine, handles, tokens, threadToken, memory,
                   process, trace>>
    /\ UNCHANGED <<wrapperVars, threadsVars, libraryVars, mainVars, resourceVars>>

\* ------------------------------------------------------ 4.6 ResourceGuard
\* The handle variables tested in the reverse of the order they are declared.
HandlerVariables_Reversed ==
    << local.OriginalToken, local.hToken, local.SystemToken,
       local.OriginalLsassProcessToken, local.DuplicatedCurrentProcessToken,
       local.CurrentProcessToken >>

\* The handle variables the Handler lambda tests, in the order it tests them.
HandlerVariables ==
    << local.CurrentProcessToken, local.DuplicatedCurrentProcessToken,
       local.OriginalLsassProcessToken, local.SystemToken, local.hToken,
       local.OriginalToken >>

\* The closes without the test against INVALID_HANDLE_VALUE.
HandlerCloses_Untested == HandlerVariables

\* "if (X != INVALID_HANDLE_VALUE) { MileCloseHandle(X); }" for each of them
HandlerCloses ==
    SelectSeq(HandlerVariables, LAMBDA h : h # INVALID_HANDLE_VALUE)

\* Handler with the thread's identity cleared first and the handles closed
\* after it.
Handler_ClearsFirst ==
    /\ handles' = CloseAll(handles, HandlerCloses)
    /\ threadToken' = 0
    /\ trace' = trace
            \o << Event("MileSetCurrentThreadToken", S_OK, 0) >>
            \o [i \in 1..Len(HandlerCloses) |->
                    [op |-> "MileCloseHandle", hr |-> S_OK,
                     arg |-> HandlerCloses[i], thread |-> 0]]

\* Handler without its last statement: the handles are closed and the
\* thread keeps the identity it has.
Handler_KeepsThreadToken ==
    /\ handles' = CloseAll(handles, HandlerCloses)
    /\ threadToken' = threadToken
    /\ trace' = trace
            \o [i \in 1..Len(HandlerCloses) |->
                    Event("MileCloseHandle", S_OK, HandlerCloses[i])]

\* The lambda given to Mile::ScopeExitEventHandler: the closes, then
\* MileSetCurrentThreadToken(nullptr).
Handler ==
    /\ handles' = CloseAll(handles, HandlerCloses)
    /\ threadToken' = 0
    /\ trace' = trace
            \o [i \in 1..Len(HandlerCloses) |->
                    Event("MileCloseHandle", S_OK, HandlerCloses[i])]
            \o << Event("MileSetCurrentThreadToken", S_OK, 0) >>

\* The scope ends with the event handler cancelled: the lambda does not run.
ScopeExit_Canceled ==
    /\ pc = "ScopeExit"
    /\ pc' = "Done"
    /\ UNCHANGED <<retval, local, CommandLine, handles, tokens, threadToken,
                   memory, process, trace>>
    /\ UNCHANGED <<wrapperVars, threadsVars, libraryVars, mainVars, resourceVars>>

\* ~ScopeExitEventHandler() as the function returns: Cancel() is never
\* called on Handler, so the lambda runs.
ScopeExit ==
    /\ pc = "ScopeExit"
    /\ Handler
    /\ pc' = "Done"
    /\ UNCHANGED <<retval, local, CommandLine, tokens, memory, process>>
    /\ UNCHANGED <<wrapperVars, threadsVars, libraryVars, mainVars, resourceVars>>

\* The launched process, once its primary thread runs, exits when it
\* chooses to, or never: nothing in the caller decides it.
ProcessExits ==
    /\ process.created
    /\ ~process.suspended
    /\ ~process.exited
    /\ process' = [process EXCEPT !.exited = TRUE]
    /\ UNCHANGED <<pc, retval, local, CommandLine, handles, tokens,
                   threadToken, memory, trace>>
    /\ UNCHANGED <<wrapperVars, threadsVars, libraryVars, mainVars, resourceVars>>

\* The steps of the thread that called NSudoCreateProcess.
NSudoCreateProcess ==
    \/ OpenCurrentProcessToken
    \/ DuplicateCurrentProcessToken
    \/ GetPrivilegeValue
    \/ AdjustCurrentProcessTokenPrivileges
    \/ SetThreadTokenToCurrentProcessToken
    \/ OpenCurrentThreadToken
    \/ GetTokenSessionId
    \/ OpenLsassProcessToken
    \/ DuplicateLsassProcessToken
    \/ AdjustSystemTokenAllPrivileges
    \/ SetThreadTokenToSystemToken
    \/ OpenServiceProcessToken
    \/ DuplicateServiceProcessToken
    \/ SetTokenSessionId
    \/ AdjustTokenAllPrivileges
    \/ SetTokenMandatoryLabel
    \/ CreateEnvironmentBlock
    \/ ExpandCommandLine
    \/ CreateProcessAsUser
    \/ SetPriorityClass
    \/ ResumeThread
    \/ WaitForSingleObject
    \/ CloseProcessHandle
    \/ CloseThreadHandle
    \/ FreeExpandedString
    \/ DestroyEnvironmentBlock
    \/ ReturnSOK
    \/ ScopeExit

Next == NSudoCreateProcess \/ ProcessExits

Spec == Init /\ [][Next]_vars

\* The call runs on the invoking thread, which keeps executing it; nothing
\* makes the launched process exit.
FairSpec == Spec /\ WF_vars(NSudoCreateProcess)

\* ------------------------------------------------------------------------
\* Reading the trace
\* ------------------------------------------------------------------------
\* The releases: closes, frees, and the clearing of the thread's identity.
IsCleanup(e) ==
    \/ e.op \in {"MileCloseHandle", "MileFreeMemory", "MileDestroyEnvironmentBlock"}
    \/ e.op = "MileSetCurrentThreadToken" /\ e.arg = 0

\* The primitives whose status the function tests.
CheckedPrimitives ==
    {"MileOpenCurrentProcessToken", "MileDuplicateToken", "MileGetPrivilegeValue",
     "MileAdjustTokenPrivilegesSimple", "MileSetCurrentThreadToken",
     "MileOpenCurrentThreadToken", "MileGetTokenInformation",
     "MileOpenLsassProcessToken", "MileAdjustTokenAllPrivileges",
     "MileOpenServiceProcessToken", "MileSetTokenInformation",
     "MileSetTokenMandatoryLabel", "MileCreateEnvironmentBlock",
     "MileExpandEnvironmentStringsWithMemory", "MileCreateProcessAsUser"}

\* The primitives whose status the function drops.
UncheckedPrimitives ==
    {"MileSetPriorityClass", "MileResumeThread", "MileWaitForSingleObject"}

CheckedFailures ==
    {i \in 1..Len(trace) : /\ trace[i].op \in CheckedPrimitives
                           /\ ~IsCleanup(trace[i])
                           /\ trace[i].hr # S_OK}

FirstCheckedFailure == CHOOSE i \in CheckedFailures : \A j \in CheckedFailures : i <= j

Calls(op) == {i \in 1..Len(trace) : trace[i].op = op}

SuccessfulCalls(op) == {i \in Calls(op) : trace[i].hr = S_OK}

\* The calls that are no release, in the order made.
Steps == SelectSeq(trace, LAMBDA e : ~IsCleanup(e))

TokenHandles == {h \in DOMAIN handles : handles[h].kind = "token"}

Returned == pc = "Done"

\* ------------------------------------------------------------------------
\* C1: NSudoCreateProcess returns zero only when every stage succeeded and
\* the process was created; when a primitive whose failure aborts the
\* pipeline fails, the returned status is non-zero and is the status of the
\* first primitive that failed.
C1_StatusIsFirstFailure ==
    Returned =>
        /\ retval = S_OK => (CheckedFailures = {} /\ process.created)
        /\ CheckedFailures # {} =>
                (retval # S_OK /\ retval = trace[FirstCheckedFailure].hr)

\* ------------------------------------------------------------------------
\* C2: when the call has returned, every token handle an open or duplicate
\* primitive returned during the call has been closed exactly once.
C2_EveryTokenHandleClosedOnce ==
    Returned => \A h \in TokenHandles : handles[h].closes = 1 /\ ~handles[h].open

\* ------------------------------------------------------------------------
\* C3: when the call has returned, on the success path and on every failure
\* path, the calling thread impersonates nobody: neither the duplicate of
\* the caller's token nor the duplicate of the lsass token is installed.
C3_ThreadIdentityClearedAtReturn ==
    Returned =>
        /\ threadToken = 0
        /\ \A h \in TokenHandles : threadToken # handles[h].obj

\* The call returned after it had installed an identity on the thread, once
\* with success and once with a failure.
C3_Witness ==
    /\ Returned
    /\ retval # S_OK
    /\ \E i \in SuccessfulCalls("MileSetCurrentThreadToken") : trace[i].arg # 0
    /\ threadToken = 0

\* ------------------------------------------------------------------------
\* C4: once a primitive whose failure aborts the pipeline has failed, the
\* call has created no process; and when opening the TrustedInstaller
\* service's token fails, the call returns that status and
\* MileCreateProcessAsUser is never called.
C4_FailureMeansNoProcess ==
    /\ CheckedFailures # {} => ~process.created
    /\ \A i \in Calls("MileOpenServiceProcessToken") :
            trace[i].hr # S_OK =>
                /\ Calls("MileCreateProcessAsUser") = {}
                /\ Returned => retval = trace[i].hr /\ retval # S_OK

\* The call returned after the open of the service's token failed.
C4_Witness ==
    /\ Returned
    /\ \E i \in Calls("MileOpenServiceProcessToken") : trace[i].hr # S_OK
    /\ ~process.created

\* ------------------------------------------------------------------------
\* C5 as stated: the process is created suspended and its primary thread is
\* resumed only after its priority class has been set (ProcessPriority is
\* the priority of the process whenever MileResumeThread is called).
C5_ResumedOnlyWithPrioritySet ==
    /\ process.created => "CREATE_SUSPENDED" \in process.flags
    /\ \A j \in Calls("MileResumeThread") :
            \E i \in SuccessfulCalls("MileSetPriorityClass") : i < j

\* C5 as amended: the process is created suspended, and MileResumeThread is
\* called only after MileSetPriorityClass has been called for the process;
\* the process runs only if that MileResumeThread succeeded.  (The status
\* of MileSetPriorityClass is not read: when it fails the thread is
\* resumed with the priority class unchanged.)
C5_ResumedOnlyAfterSetPriorityCall ==
    /\ process.created => "CREATE_SUSPENDED" \in process.flags
    /\ \A j \in Calls("MileResumeThread") :
            /\ \E i \in Calls("MileSetPriorityClass") :
                    i < j /\ trace[i].arg = local.hProcess
            /\ trace[j].arg = local.hThread
    /\ (process.created /\ ~process.suspended) =>
            SuccessfulCalls("MileResumeThread") # {}

\* The process runs although the call that sets its priority failed.
C5_Witness ==
    /\ process.created
    /\ ~process.suspended
    /\ Calls("MileSetPriorityClass") # {}
    /\ SuccessfulCalls("MileSetPriorityClass") = {}
    /\ process.priority # ProcessPriority

\* ------------------------------------------------------------------------
\* C6: the environment block and the expanded command line are each freed
\* exactly once on every path that allocated them and never on a path that
\* did not; when MileCreateEnvironmentBlock fails the expansion is not
\* attempted; when the expansion fails the environment block is destroyed
\* before the call returns.
C6_BlockAndStringFreedOnce ==
    /\ memory.environmentFrees <=
            Cardinality(SuccessfulCalls("MileCreateEnvironmentBlock"))
    /\ memory.stringFrees <=
            Cardinality(SuccessfulCalls("MileExpandEnvironmentStringsWithMemory"))
    /\ memory.environment = "freed" => memory.environmentFrees = 1
    /\ memory.string = "freed" => memory.stringFrees = 1
    /\ pc \in {"ScopeExit", "Done"} =>
            /\ memory.environment \in {"none", "freed"}
            /\ memory.string \in {"none", "freed"}
            /\ memory.environmentFrees =
                    Cardinality(SuccessfulCalls("MileCreateEnvironmentBlock"))
            /\ memory.stringFrees =
                    Cardinality(SuccessfulCalls("MileExpandEnvironmentStringsWithMemory"))
    /\ SuccessfulCalls("MileCreateEnvironmentBlock") = {} =>
            Calls("MileExpandEnvironmentStringsWithMemory") = {}

\* The call returned after the expansion failed, with the block destroyed.
C6_Witness ==
    /\ Returned
    /\ \E i \in Calls("MileExpandEnvironmentStringsWithMemory") : trace[i].hr # S_OK
    /\ memory.environment = "freed"
    /\ memory.string = "none"

\* ------------------------------------------------------------------------
\* C7: whenever a process is created, the session of the token it is
\* created with is the session of the caller's token; SessionID is read
\* once, from a token of the caller, before the lsass identity is put on the
\* thread, and holds that value from then on; it is never read from the
\* lsass or the service token.
C7_ProcessSessionIsCallerSession ==
    /\ process.created =>
            /\ process.session = tokens[CallerProcessTokenId].session
            /\ tokens[process.token].session = tokens[CallerProcessTokenId].session
    /\ Cardinality(SuccessfulCalls("MileGetTokenInformation")) <= 1
    /\ \A i \in SuccessfulCalls("MileGetTokenInformation") :
            /\ tokens[handles[trace[i].arg].obj].origin = "caller"
            /\ local.SessionID = tokens[CallerProcessTokenId].session
            /\ \A j \in SuccessfulCalls("MileSetCurrentThreadToken") :
                    (trace[j].arg # 0 /\ tokens[handles[trace[j].arg].obj].origin = "lsass")
                        => i < j
    /\ SuccessfulCalls("MileGetTokenInformation") = {} =>
            local.SessionID = UnsetSessionID
    /\ \A i \in SuccessfulCalls("MileSetTokenInformation") :
            tokens[handles[trace[i].arg].obj].session = tokens[CallerProcessTokenId].session

\* A process was created for a caller whose session is not the services'.
C7_Witness ==
    /\ process.created
    /\ tokens[CallerProcessTokenId].session # tokens[ServiceProcessTokenId].session
    /\ process.session = tokens[CallerProcessTokenId].session

\* ------------------------------------------------------------------------
\* C8 as stated: the calls are made in the order of the pipeline, each only
\* after the one before it reported success, and after any acquisition,
\* mutation or launch primitive has failed none of them is called again.
PipelineOrder ==
    << "MileOpenCurrentProcessToken", "MileDuplicateToken", "MileGetPrivilegeValue",
       "MileAdjustTokenPrivilegesSimple", "MileSetCurrentThreadToken",
       "MileOpenCurrentThreadToken", "MileGetTokenInformation",
       "MileOpenLsassProcessToken", "MileDuplicateToken",
       "MileAdjustTokenAllPrivileges", "MileSetCurrentThreadToken",
       "MileOpenServiceProcessToken", "MileDuplicateToken",
       "MileSetTokenInformation", "MileAdjustTokenAllPrivileges",
       "MileSetTokenMandatoryLabel", "MileCreateEnvironmentBlock",
       "MileExpandEnvironmentStringsWithMemory", "MileCreateProcessAsUser",
       "MileSetPriorityClass", "MileResumeThread", "MileWaitForSingleObject" >>

LaunchPrimitives == CheckedPrimitives \cup {"MileSetPriorityClass", "MileResumeThread"}

InPipelineOrder ==
    /\ Len(Steps) <= Len(PipelineOrder)
    /\ \A k \in 1..Len(Steps) : Steps[k].op = PipelineOrder[k]

C8_NothingAfterAnyFailure ==
    /\ InPipelineOrder
    /\ \A k \in 1..Len(Steps) : \A m \in 1..Len(Steps) :
            (k < m /\ Steps[k].op \in LaunchPrimitives /\ Steps[k].hr # S_OK)
                => Steps[m].op \notin LaunchPrimitives

\* C8 as amended: the calls are made in the order of the pipeline and
\* nothing is called twice; every call up to and including process creation
\* is made only after the one before it reported success, and after one of
\* those has failed only releases follow (so after a failed process creation
\* neither set-priority nor resume is called).  Set-priority, resume and the
\* zero-timeout wait are called after a successful creation whatever the one
\* before reported.
C8_NothingAfterCheckedFailure ==
    /\ InPipelineOrder
    /\ \A k \in 2..Len(Steps) :
            Steps[k - 1].hr = S_OK \/ Steps[k - 1].op \in UncheckedPrimitives
    /\ \A i \in CheckedFailures : \A j \in 1..Len(trace) :
            i < j => IsCleanup(trace[j])
    /\ Calls("MileSetPriorityClass") \cup Calls("MileResumeThread") # {} =>
            SuccessfulCalls("MileCreateProcessAsUser") # {}

\* Process creation failed and the call returned.
C8_Witness ==
    /\ Returned
    /\ \E i \in Calls("MileCreateProcessAsUser") : trace[i].hr # S_OK
    /\ Calls("MileSetPriorityClass") = {}
    /\ Calls("MileResumeThread") = {}

\* ------------------------------------------------------------------------
\* C9: MileCreateProcessAsUser is called only with hToken, a primary token
\* duplicated from the TrustedInstaller service's token, on which the
\* session rebinding, the enabling of all privileges and the raising of the
\* label to the system level have all succeeded, the session rebinding
\* before the other two.
C9_ProcessTokenFullyPrepared ==
    \A c \in Calls("MileCreateProcessAsUser") :
        LET h == trace[c].arg
            t == tokens[handles[h].obj]
        IN  /\ h = local.hToken
            /\ t.type = "TokenPrimary"
            /\ t.from = ServiceProcessTokenId
            /\ t.enabled = t.present
            /\ t.label = MandatoryLabelRid
            /\ \E s \in SuccessfulCalls("MileSetTokenInformation") :
                /\ trace[s].arg = h
                /\ \E a \in SuccessfulCalls("MileAdjustTokenAllPrivileges") :
                        trace[a].arg = h /\ s < a /\ a < c
                /\ \E l \in SuccessfulCalls("MileSetTokenMandatoryLabel") :
                        trace[l].arg = h /\ s < l /\ l < c

\* MileCreateProcessAsUser was called and created the process.
C9_Witness ==
    /\ SuccessfulCalls("MileCreateProcessAsUser") # {}
    /\ process.created
    /\ process.token = handles[local.hToken].obj

\* ------------------------------------------------------------------------
\* C10: every call of NSudoCreateProcess returns, and on every return path
\* the cleanup scope has run exactly once, after the last step of the
\* pipeline, and has released only what the call had acquired: it closed
\* only handles the call was given, none of them twice, and cleared the
\* thread's identity once, as the last thing the call did.
ThreadTokenClears ==
    {i \in Calls("MileSetCurrentThreadToken") : trace[i].arg = 0}

HandlerCloseCalls ==
    {i \in Calls("MileCloseHandle") :
        trace[i].arg \in DOMAIN handles => handles[trace[i].arg].kind = "token"}

CleanupRanOnceAtExit ==
    /\ ~Returned => ThreadTokenClears = {} /\ HandlerCloseCalls = {}
    /\ Returned =>
        /\ Cardinality(ThreadTokenClears) = 1
        /\ Len(trace) \in ThreadTokenClears
        /\ \A i \in HandlerCloseCalls :
            /\ trace[i].arg \in DOMAIN handles
            /\ \A j \in 1..Len(trace) : i < j => IsCleanup(trace[j])
            /\ \A j \in Calls("MileCloseHandle") :
                    trace[j].arg = trace[i].arg => i = j
        /\ \A h \in DOMAIN handles : handles[h].closes <= 1

C10_TerminatesWithOneCleanup ==
    /\ <>Returned
    /\ []CleanupRanOnceAtExit

\* The call returned with a failure after it had acquired handles, and the
\* cleanup closed them.
C10_Witness ==
    /\ Returned
    /\ retval # S_OK
    /\ HandlerCloseCalls # {}
    /\ Len(trace) \in ThreadTokenClears

\* ------------------------------------------------------------------------
\* The identity the calling thread had when the call started: the first
\* call of the function is logged with it.
EntryThreadToken == trace[1].thread

\* C11 as stated: a failure at any step leaves the calling thread's identity
\* as it was at entry, whatever identity the thread held then.
C11_FailureRestoresEntryIdentity ==
    (Returned /\ CheckedFailures # {}) => threadToken = EntryThreadToken

\* C11 as amended: after a failed call the calling thread impersonates
\* nobody, so its identity is the one it had at entry exactly when it
\* impersonated nobody at entry; an identity held at entry is not restored.
C11_FailureLeavesNoIdentity ==
    (Returned /\ CheckedFailures # {}) =>
        /\ threadToken = 0
        /\ (threadToken = EntryThreadToken) <=> (EntryThreadToken = 0)

\* A call that started with no identity on the thread failed after it had
\* installed one, and returned.
C11_Witness ==
    /\ Returned
    /\ CheckedFailures # {}
    /\ EntryThreadToken = 0
    /\ \E i \in SuccessfulCalls("MileSetCurrentThreadToken") : trace[i].arg # 0
    /\ threadToken = EntryThreadToken

\* ------------------------------------------------------------------------
\* C13: the launch is fire-and-forget: after MileResumeThread the call
\* closes the process handle and the thread handle, once each, and returns;
\* no step waits for the launched process to exit, so the call returns
\* whether or not the process ever exits.
ClosesOf(h) == {i \in Calls("MileCloseHandle") : trace[i].arg = h}

HandlesClosedAfterResume ==
    /\ \A i \in ClosesOf(local.hProcess) \cup ClosesOf(local.hThread) :
            \E j \in Calls("MileResumeThread") : j < i
    /\ Cardinality(ClosesOf(local.hProcess)) <= 1
    /\ Cardinality(ClosesOf(local.hThread)) <= 1
    /\ (process.created /\ pc \in {"L343", "L346", "L349", "ScopeExit", "Done"}) =>
            /\ Cardinality(ClosesOf(local.hProcess)) = 1
            /\ Cardinality(ClosesOf(local.hThread)) = 1
            /\ handles[local.hProcess].closes = 1
            /\ handles[local.hThread].closes = 1

C13_FireAndForget ==
    /\ []HandlesClosedAfterResume
    /\ [](process.created => <>Returned)
    /\ [](pc = "L336" => ENABLED WaitForSingleObject)

\* The call has returned and the process it launched is still running.
C13_Witness ==
    /\ Returned
    /\ process.created
    /\ ~process.suspended
    /\ ~process.exited
    /\ handles[local.hProcess].closes = 1
    /\ handles[local.hThread].closes = 1

\* ------------------------------------------------------------------------
\* Releases, read from the trace
TokenCloses ==
    {i \in Calls("MileCloseHandle") :
        trace[i].arg \in DOMAIN handles /\ handles[trace[i].arg].kind = "token"}

StringFrees == Calls("MileFreeMemory")

BlockFrees == Calls("MileDestroyEnvironmentBlock")

\* The handles the six handle variables hold, in the order the variables
\* are declared (lines 108-115).
DeclaredOrder ==
    << local.CurrentProcessToken, local.DuplicatedCurrentProcessToken,
       local.OriginalLsassProcessToken, local.SystemToken, local.hToken,
       local.OriginalToken >>

HeldAtExit == {DeclaredOrder[k] : k \in 1..Len(DeclaredOrder)} \ {INVALID_HANDLE_VALUE}

PlaceOf(h) == CHOOSE k \in 1..Len(DeclaredOrder) : DeclaredOrder[k] = h

\* C14 as stated: on every exit path each release (the close of every token
\* handle acquired, the freeing of the environment block and of the
\* expanded string, the reset of the thread's identity) is executed exactly
\* once, and the releases come in the reverse of the order of acquisition
\* (handles are numbered in the order they were acquired).
C14_ReleasedOnceInReverseOrder ==
    Returned =>
        /\ \A h \in TokenHandles : Cardinality(ClosesOf(h)) = 1
        /\ Cardinality(BlockFrees) =
                Cardinality(SuccessfulCalls("MileCreateEnvironmentBlock"))
        /\ Cardinality(StringFrees) =
                Cardinality(SuccessfulCalls("MileExpandEnvironmentStringsWithMemory"))
        /\ Cardinality(ThreadTokenClears) = 1
        /\ \A i \in TokenCloses : \A j \in TokenCloses :
                trace[i].arg < trace[j].arg => j < i
        /\ \A i \in StringFrees : \A j \in BlockFrees : i < j
        /\ \A i \in StringFrees \cup BlockFrees : \A j \in TokenCloses : i < j

\* C14 as amended: on every exit path no release is executed twice, and the
\* handle each handle variable holds at exit, the environment block, the
\* expanded string and the thread's identity are each released exactly
\* once; the string and the block are released in the reverse of the order
\* they were allocated, before any token handle; the token handles are
\* closed in the order the Handler tests its variables, the order of their
\* declaration, whatever the order they were acquired in; the reset of the
\* identity comes last.
C14_ReleasedOnceInHandlerOrder ==
    /\ \A h \in DOMAIN handles : Cardinality(ClosesOf(h)) <= 1
    /\ Cardinality(StringFrees) <= 1
    /\ Cardinality(BlockFrees) <= 1
    /\ Cardinality(ThreadTokenClears) <= 1
    /\ Returned =>
        /\ \A h \in HeldAtExit : Cardinality(ClosesOf(h)) = 1
        /\ Cardinality(BlockFrees) =
                Cardinality(SuccessfulCalls("MileCreateEnvironmentBlock"))
        /\ Cardinality(StringFrees) =
                Cardinality(SuccessfulCalls("MileExpandEnvironmentStringsWithMemory"))
        /\ Cardinality(ThreadTokenClears) = 1
        /\ \A i \in TokenCloses : \A j \in TokenCloses :
                i < j => PlaceOf(trace[i].arg) < PlaceOf(trace[j].arg)
        /\ \A i \in StringFrees : \A j \in BlockFrees : i < j
        /\ \A i \in StringFrees \cup BlockFrees : \A j \in TokenCloses : i < j
        /\ \A c \in ThreadTokenClears : c = Len(trace)

\* The call returned after it had acquired all its handles, the block and
\* the string, and released them; the handle of each of the six variables
\* was closed, and the closes came neither in the order the handles were
\* acquired (handles are numbered in that order) nor in its reverse.
C14_Witness ==
    /\ Returned
    /\ Cardinality(TokenCloses) = Len(DeclaredOrder)
    /\ StringFrees # {}
    /\ BlockFrees # {}
    /\ \E i \in TokenCloses : \E j \in TokenCloses :
            i < j /\ trace[i].arg < trace[j].arg
    /\ \E i \in TokenCloses : \E j \in TokenCloses :
            i < j /\ trace[i].arg > trace[j].arg

\* ------------------------------------------------------------------------
\* C15 as stated: at cleanup the token handles are closed first, then the
\* environment block is freed, then the expanded string, and the thread's
\* identity is cleared last, however far the pipeline went.
C15_HandlesThenBlockThenString ==
    Returned =>
        /\ \A i \in TokenCloses : \A j \in BlockFrees \cup StringFrees : i < j
        /\ \A i \in BlockFrees : \A j \in StringFrees : i < j
        /\ Cardinality(ThreadTokenClears) = 1
        /\ Len(trace) \in ThreadTokenClears

\* The closes of the handles of the created process and of its thread.
ProcessCloses == Calls("MileCloseHandle") \ TokenCloses

\* C15 as amended: the releases come in this order: the handles of the
\* created process and of its thread are closed if the process was created,
\* then the expanded string is freed if it was allocated, then the
\* environment block if it was allocated, then the token handle each handle
\* variable holds is closed, and last the thread's identity is cleared; the
\* token handles are closed and the identity is cleared only when the
\* function leaves, and the clearing is done however far the pipeline went,
\* also when no identity was ever installed.
C15_StringThenBlockThenHandles ==
    /\ ~Returned => ThreadTokenClears = {} /\ TokenCloses = {}
    /\ Returned =>
        /\ Cardinality(ProcessCloses) = (IF process.created THEN 2 ELSE 0)
        /\ Cardinality(StringFrees) =
                Cardinality(SuccessfulCalls("MileExpandEnvironmentStringsWithMemory"))
        /\ Cardinality(BlockFrees) =
                Cardinality(SuccessfulCalls("MileCreateEnvironmentBlock"))
        /\ \A i \in ProcessCloses :
                \A j \in StringFrees \cup BlockFrees \cup TokenCloses : i < j
        /\ \A i \in StringFrees : \A j \in BlockFrees : i < j
        /\ \A i \in BlockFrees \cup StringFrees : \A j \in TokenCloses : i < j
        /\ \A i \in TokenCloses : \A c \in ThreadTokenClears : i < c
        /\ {trace[i].arg : i \in TokenCloses} = HeldAtExit
        /\ Cardinality(ThreadTokenClears) = 1
        /\ Len(trace) \in ThreadTokenClears

\* The call returned after it had created the process: it closed the two
\* handles of the process, then freed the string, then the block, then
\* closed token handles, the block being freed before each of them, and
\* cleared the identity last.
C15_Witness ==
    /\ Returned
    /\ process.created
    /\ Cardinality(ProcessCloses) = 2
    /\ StringFrees # {}
    /\ BlockFrees # {}
    /\ TokenCloses # {}
    /\ \E i \in BlockFrees : \E j \in TokenCloses : i < j
    /\ trace[Len(trace)].op = "MileSetCurrentThreadToken"
    /\ trace[Len(trace)].arg = 0

\* ------------------------------------------------------------------------
\* C16: the cleanup never closes a handle variable that was never opened
\* (that still holds INVALID_HANDLE_VALUE), and no handle value is passed to
\* MileCloseHandle more than once during a call.
C16_NoCloseOfSentinelNoDoubleClose ==
    /\ \A i \in Calls("MileCloseHandle") :
        /\ trace[i].arg # INVALID_HANDLE_VALUE
        /\ trace[i].arg \in DOMAIN handles
        /\ \A j \in Calls("MileCloseHandle") : trace[j].arg = trace[i].arg => i = j
    /\ \A h \in DOMAIN handles : handles[h].closes <= 1

\* The call returned with some handle variables never opened and the
\* others closed.
C16_Witness ==
    /\ Returned
    /\ local.SystemToken = INVALID_HANDLE_VALUE
    /\ local.DuplicatedCurrentProcessToken # INVALID_HANDLE_VALUE
    /\ handles[local.DuplicatedCurrentProcessToken].closes = 1

\* ------------------------------------------------------------------------
\* Installations of an identity on the thread, read from the trace
ThreadTokenSets ==
    {i \in Calls("MileSetCurrentThreadToken") : trace[i].arg # 0}

\* the calls of op on handle h that succeeded before the i-th call
SucceededBefore(op, h, i) ==
    {j \in SuccessfulCalls(op) : j < i /\ trace[j].arg = h}

\* C18: each identity is in place before it is relied on: SeDebugPrivilege
\* is enabled on the duplicate of the caller's token before that token is
\* installed on the thread; the token of lsass is opened only while that
\* duplicate is the thread's identity; all privileges are enabled on the
\* SYSTEM impersonation token before it is installed; and the token of the
\* TrustedInstaller service is opened only while the SYSTEM impersonation
\* token is the thread's identity.
C18_IdentityInPlaceBeforeUse ==
    /\ \A i \in ThreadTokenSets :
        trace[i].arg = local.DuplicatedCurrentProcessToken =>
            /\ SucceededBefore("MileAdjustTokenPrivilegesSimple", trace[i].arg, i) # {}
            /\ "SeDebugPrivilege" \in tokens[TokenOf(trace[i].arg)].enabled
    /\ \A i \in Calls("MileOpenLsassProcessToken") :
        /\ local.DuplicatedCurrentProcessToken # INVALID_HANDLE_VALUE
        /\ trace[i].thread = TokenOf(local.DuplicatedCurrentProcessToken)
        /\ tokens[trace[i].thread].origin = "caller"
        /\ tokens[trace[i].thread].type = "TokenImpersonation"
    /\ \A i \in ThreadTokenSets :
        trace[i].arg = local.SystemToken =>
            /\ SucceededBefore("MileAdjustTokenAllPrivileges", trace[i].arg, i) # {}
            /\ tokens[TokenOf(trace[i].arg)].enabled =
                    tokens[TokenOf(trace[i].arg)].present
    /\ \A i \in Calls("MileOpenServiceProcessToken") :
        /\ local.SystemToken # INVALID_HANDLE_VALUE
        /\ trace[i].thread = TokenOf(local.SystemToken)
        /\ tokens[trace[i].thread].origin = "lsass"
        /\ tokens[trace[i].thread].type = "TokenImpersonation"

\* The token of the TrustedInstaller service has been opened.
C18_Witness ==
    /\ SuccessfulCalls("MileOpenServiceProcessToken") # {}
    /\ Cardinality(ThreadTokenSets) = 2

\* ------------------------------------------------------------------------
\* C19: within one call the thread's identity is set to a token at most
\* twice, first to the duplicate of the caller's token and then to the
\* SYSTEM impersonation token, never to the primary token of the target;
\* it is reset to none exactly once, at exit, and nothing installs an
\* identity after the reset.
C19_TwoSetsOneReset ==
    /\ Cardinality(ThreadTokenSets) <= 2
    /\ \A i \in ThreadTokenSets :
        /\ trace[i].arg \in {local.DuplicatedCurrentProcessToken, local.SystemToken}
        /\ trace[i].arg # local.hToken
        /\ tokens[TokenOf(trace[i].arg)].type = "TokenImpersonation"
    /\ \A i \in ThreadTokenSets : \A j \in ThreadTokenSets :
        (i < j) => /\ trace[i].arg = local.DuplicatedCurrentProcessToken
                   /\ trace[j].arg = local.SystemToken
    /\ \A i \in ThreadTokenSets :
        trace[i].arg = local.SystemToken =>
            \E j \in ThreadTokenSets :
                j < i /\ trace[j].arg = local.DuplicatedCurrentProcessToken
    /\ ~Returned => ThreadTokenClears = {}
    /\ Returned =>
        /\ Cardinality(ThreadTokenClears) = 1
        /\ \A c \in ThreadTokenClears : \A i \in ThreadTokenSets : i < c
        /\ threadToken = 0

\* The call returned after it had installed both identities and created
\* the process.
C19_Witness ==
    /\ Returned
    /\ Cardinality(ThreadTokenSets) = 2
    /\ local.hToken # INVALID_HANDLE_VALUE
    /\ process.created

\* ------------------------------------------------------------------------
\* C20: the command line is expanded against the environment of the calling
\* process, not against the block built for the target token; the
\* expansion is complete before the process is created; the creation of
\* the process is the only point where the block is attached to it; and the
\* string given to the creation does not depend on what the block holds.
C20_ExpandedAgainstCallerEnvironment ==
    /\ memory.string = "allocated" =>
        memory.stringValue = ExpandEnvironmentStrings(CommandLine, CallerEnvironment)
    /\ \A i \in Calls("MileCreateProcessAsUser") :
        \E j \in SuccessfulCalls("MileExpandEnvironmentStringsWithMemory") :
            /\ j < i
            /\ \E k \in SuccessfulCalls("MileCreateEnvironmentBlock") : k < j
    /\ process.created <=> SuccessfulCalls("MileCreateProcessAsUser") # {}
    /\ ~process.created => process.environment = NoEnvironment
    /\ process.created =>
        /\ process.environment = TargetEnvironment
        /\ process.commandLine =
                ExpandEnvironmentStrings(CommandLine, CallerEnvironment)
        /\ \A i \in 1..Len(CommandLine) :
            CommandLine[i] \in DOMAIN CallerEnvironment =>
                process.commandLine[i] = CallerEnvironment[CommandLine[i]]

\* A process was created from a command line whose expansion against the
\* block of the target would have given another string.
C20_Witness ==
    /\ process.created
    /\ ExpandEnvironmentStrings(CommandLine, CallerEnvironment)
            # ExpandEnvironmentStrings(CommandLine, process.environment)
    /\ process.commandLine # CommandLine

\* ------------------------------------------------------------------------
\* M2::CObject<TObject, TObjectDefiner> (NSudo.cpp), the wrapper that owns a
\* handle. The wrapper is the record w of its field m_Object and of the
\* calls of TObjectDefiner::Close it has made.
\* ------------------------------------------------------------------------
WrapperHandles == 1..MaxHandles

\* TObjectDefiner::GetInvalidValue() of CHandleDefiner
GetInvalidValue == INVALID_HANDLE_VALUE

ObjectValues == WrapperHandles \cup {GetInvalidValue}

Wrapper == [m_Object |-> m_Object, released |-> released]

\* TObjectDefiner::Close(m_Object)
DefinerClose(w) == [w EXCEPT !.released[w.m_Object] = @ + 1]

IsInvalid(w) == w.m_Object = GetInvalidValue

\* Close() without the test of IsInvalid().
Close_Untested(w) ==
    [DefinerClose(w) EXCEPT !.m_Object = GetInvalidValue]

\* void Close()
Close(w) ==
    IF ~IsInvalid(w)
    THEN [DefinerClose(w) EXCEPT !.m_Object = GetInvalidValue]
    ELSE w

\* TObject operator=(TObject Object)
Assign(w, Object) ==
    IF Object # w.m_Object
    THEN [Close(w) EXCEPT !.m_Object = Object]
    ELSE w

\* TObject Detach(): the wrapper after the call (the call returns the
\* m_Object of before)
Detach(w) == [w EXCEPT !.m_Object = GetInvalidValue]

\* What a caller can give operator=: a handle that is open, its own
\* (fresh, or returned by Detach) or the one the wrapper holds, or the
\* invalid value.
Assignable == {h \in WrapperHandles : released[h] = 0} \cup {GetInvalidValue}

\* CObject(TObject Object = GetInvalidValue()): m_Object(Object)
InitWrapper ==
    /\ released = [v \in ObjectValues |-> 0]
    /\ m_Object \in Assignable
    /\ alive = TRUE
    /\ detached = {}

CObjectAssign ==
    /\ alive
    /\ \E Object \in Assignable :
        /\ m_Object' = Assign(Wrapper, Object).m_Object
        /\ released' = Assign(Wrapper, Object).released
        /\ detached' = detached \ {Object}
    /\ UNCHANGED alive
    /\ UNCHANGED <<pipelineVars, threadsVars, libraryVars, mainVars, resourceVars>>

CObjectDetach ==
    /\ alive
    /\ m_Object' = Detach(Wrapper).m_Object
    /\ released' = Detach(Wrapper).released
    /\ detached' = detached \cup ({m_Object} \ {GetInvalidValue})
    /\ UNCHANGED alive
    /\ UNCHANGED <<pipelineVars, threadsVars, libraryVars, mainVars, resourceVars>>

CObjectClose ==
    /\ alive
    /\ m_Object' = Close(Wrapper).m_Object
    /\ released' = Close(Wrapper).released
    /\ UNCHANGED <<alive, detached>>
    /\ UNCHANGED <<pipelineVars, threadsVars, libraryVars, mainVars, resourceVars>>

\* ~CObject() { this->Close(); }
CObjectDestructor ==
    /\ alive
    /\ m_Object' = Close(Wrapper).m_Object
    /\ released' = Close(Wrapper).released
    /\ alive' = FALSE
    /\ UNCHANGED detached
    /\ UNCHANGED <<pipelineVars, threadsVars, libraryVars, mainVars, resourceVars>>

\* TObject* operator&() (lines 279-282) used as an out-parameter, as CThread
\* does at line 529: the callee stores a handle, or the invalid value, into
\* m_Object through the pointer.  Nothing is released and nothing is
\* returned: the handle the wrapper held stays open and is owned by nobody.
CObjectStore ==
    /\ alive
    /\ \E Object \in Assignable :
        /\ m_Object' = Object
        /\ detached' = detached \ {Object}
    /\ UNCHANGED <<alive, released>>
    /\ UNCHANGED <<pipelineVars, threadsVars, libraryVars, mainVars, resourceVars>>

\* bool CMemory::Alloc(size_t) (lines 404-409), a member of a subclass:
\* Free(), which is Close(), and then m_Object is given what malloc
\* returned, a block the caller does not own yet or the invalid value.
CMemoryAlloc ==
    /\ alive
    /\ \E Object \in (Assignable \ (detached \cup {m_Object}))
                        \cup {GetInvalidValue} :
        m_Object' = Object
    /\ released' = Close(Wrapper).released
    /\ UNCHANGED <<alive, detached>>
    /\ UNCHANGED <<pipelineVars, threadsVars, libraryVars, mainVars, resourceVars>>

\* No call of NSudoCreateProcess is under way.
NoPipeline ==
    /\ pc = "Idle"
    /\ retval = S_OK
    /\ local = InitialLocals
    /\ CommandLine = <<>>
    /\ handles = <<>>
    /\ tokens = <<>>
    /\ threadToken = 0
    /\ memory = [environment |-> "none", environmentFrees |-> 0,
                 environmentValue |-> NoEnvironment,
                 string |-> "none", stringFrees |-> 0, stringValue |-> <<>>]
    /\ process = NoProcess
    /\ trace = <<>>

WrapperInit == NoPipeline /\ NoThreads /\ NoLibrary /\ NoMain /\ InitWrapper

WrapperNext ==
    \/ CObjectAssign
    \/ CObjectDetach
    \/ CObjectClose
    \/ CObjectStore
    \/ CMemoryAlloc
    \/ CObjectDestructor

WrapperSpec == WrapperInit /\ [][WrapperNext]_vars

\* C17: over any sequence of assignments of handles, Detach, Close and
\* destruction on one wrapper, TObjectDefiner::Close is never called on the
\* invalid value; a handle the wrapper owned is released at most once; a
\* handle Detach returned is not released by the wrapper (for as long as it
\* is not assigned to the wrapper again) and is no longer held by it; and
\* Close on a wrapper that is already closed does nothing.
C17_ReleasedAtMostOnce ==
    /\ released[GetInvalidValue] = 0
    /\ \A h \in WrapperHandles : released[h] <= 1
    /\ \A h \in WrapperHandles : released[h] = 1 => m_Object # h
    /\ \A h \in detached : released[h] = 0 /\ m_Object # h
    /\ IsInvalid(Wrapper) => Close(Wrapper) = Wrapper
    /\ ~alive => IsInvalid(Wrapper)

\* The wrapper was destroyed after it had released one handle and given
\* another one away, which is still open.
C17_Witness ==
    /\ ~alive
    /\ \E h \in WrapperHandles : released[h] = 1
    /\ \E h \in detached : released[h] = 0

\* ------------------------------------------------------------------------
\* Two calls of NSudoCreateProcess on two threads of one process. A world W
\* is the handle table and the tokens of the process, which the threads
\* share, and the state of each thread: its position, its local variables,
\* its parameter, its impersonation token, the memory it allocated and the
\* process it created. Each step of the function is an operator that gives
\* the world after thread t made the call with result r.
\* ------------------------------------------------------------------------
Threads == {1, 2}

ThreadCommandLine(t) == IF t = 1 THEN << "cmd.exe" >> ELSE << "%USERPROFILE%" >>

NoMemory ==
    [environment |-> "none", environmentFrees |-> 0,
     environmentValue |-> NoEnvironment,
     string |-> "none", stringFrees |-> 0, stringValue |-> <<>>]

InitialThread(t) ==
    [pc |-> "L154", retval |-> S_OK, local |-> InitialLocals,
     CommandLine |-> ThreadCommandLine(t), threadToken |-> 0,
     memory |-> NoMemory, process |-> NoProcess, used |-> {}]

InitialWorld(callerSession) ==
    [handles |-> [h \in {} |-> h],
     tokens |-> InitialTokens(callerSession),
     thr |-> [t \in Threads |-> InitialThread(t)]]

OwnedBy(W, t) == {h \in DOMAIN W.handles : W.handles[h].owner = t}

\* Handle values are opaque (the function compares them only with
\* INVALID_HANDLE_VALUE): a thread's handles are given values that no other
\* thread gets, whatever the interleaving.
FreshHandle(W, t) == t + Cardinality(Threads) * Cardinality(OwnedBy(W, t))

FreshToken(W, t) == Len(InitialTokens(0)) + FreshHandle(W, t)

NewHandleIn(W, t, kind, obj) ==
    [W EXCEPT !.handles =
        (FreshHandle(W, t) :> [kind |-> kind, obj |-> obj, open |-> TRUE,
                               closes |-> 0, owner |-> t]) @@ @]

OutcomesIn(W, h) ==
    IF h \in DOMAIN W.handles /\ W.handles[h].open
    THEN HResults ELSE HResultFailures

\* "if (hr != S_OK) { return hr; }"
CheckedIn(s, r, next) ==
    IF r = S_OK THEN [s EXCEPT !.pc = next]
                ELSE [s EXCEPT !.pc = "ScopeExit", !.retval = r]

\* "if (hr == S_OK) { ... }"
NestedIn(s, r, inner, after) ==
    [s EXCEPT !.pc = IF r = S_OK THEN inner ELSE after]

\* hr = MileOpen...Token(..., &var): a handle of token obj
MileOpenToken(W, t, r, obj, var, next) ==
    LET s == [W.thr[t] EXCEPT !.local.hr = r]
    IN  IF r = S_OK
        THEN [NewHandleIn(W, t, "token", obj) EXCEPT !.thr[t] =
                CheckedIn([s EXCEPT !.local[var] = FreshHandle(W, t)], r, next)]
        ELSE [W EXCEPT !.thr[t] = CheckedIn(s, r, next)]

\* hr = MileDuplicateToken(src, MAXIMUM_ALLOWED, nullptr, level, type, &dst)
MileDuplicateToken(W, t, r, src, type, level, dst, next) ==
    LET s == [W.thr[t] EXCEPT !.local.hr = r, !.used = @ \cup {W.thr[t].local[src]}]
    IN  IF r = S_OK
        THEN LET from == W.handles[s.local[src]].obj
             IN [NewHandleIn(W, t, "token", FreshToken(W, t)) EXCEPT
                    !.tokens = (FreshToken(W, t) :>
                                  [DuplicateToken(W.tokens[from], type, level)
                                   EXCEPT !.from = from]) @@ @,
                    !.thr[t] = CheckedIn(
                        [s EXCEPT !.local[dst] = FreshHandle(W, t)], r, next)]
        ELSE [W EXCEPT !.thr[t] = CheckedIn(s, r, next)]

\* the world after a primitive, given the handle in variable var, set
\* field of the token of that handle to value
TokenChanged(W, t, r, var, field, value, next) ==
    LET s == [W.thr[t] EXCEPT !.local.hr = r, !.used = @ \cup {W.thr[t].local[var]}]
    IN  IF r = S_OK
        THEN [W EXCEPT !.tokens[W.handles[s.local[var]].obj][field] = value,
                       !.thr[t] = CheckedIn(s, r, next)]
        ELSE [W EXCEPT !.thr[t] = CheckedIn(s, r, next)]

\* hr = MileAdjustTokenPrivilegesSimple(var, &RawPrivilege, 1)
MileAdjustTokenPrivilegesSimple(W, t, r, var, privilege, next) ==
    TokenChanged(W, t, r, var, "enabled",
        IF r = S_OK
        THEN W.tokens[W.handles[W.thr[t].local[var]].obj].enabled \cup {privilege}
        ELSE {}, next)

\* hr = MileAdjustTokenAllPrivileges(var, SE_PRIVILEGE_ENABLED)
MileAdjustTokenAllPrivileges(W, t, r, var, next) ==
    TokenChanged(W, t, r, var, "enabled",
        IF r = S_OK
        THEN W.tokens[W.handles[W.thr[t].local[var]].obj].present
        ELSE {}, next)

\* hr = MileSetTokenInformation(var, TokenSessionId, &SessionID, ...)
MileSetTokenInformation(W, t, r, var, session, next) ==
    TokenChanged(W, t, r, var, "session", session, next)

\* hr = MileSetTokenMandatoryLabel(var, MandatoryLabelRid)
MileSetTokenMandatoryLabel(W, t, r, var, label, next) ==
    TokenChanged(W, t, r, var, "label", label, next)

\* hr = MileSetCurrentThreadToken(var): the calling thread's token
MileSetCurrentThreadToken(W, t, r, var, next) ==
    LET s == [W.thr[t] EXCEPT !.local.hr = r, !.used = @ \cup {W.thr[t].local[var]}]
    IN  IF r = S_OK
        THEN [W EXCEPT !.thr[t] = CheckedIn(
                [s EXCEPT !.threadToken = W.handles[s.local[var]].obj], r, next)]
        ELSE [W EXCEPT !.thr[t] = CheckedIn(s, r, next)]

\* a primitive given the handle in variable var, with the result unread:
\* field of the process becomes value if the call succeeds
ProcessChanged(W, t, r, var, field, value, next) ==
    [W EXCEPT !.thr[t] =
        [@ EXCEPT !.used = @ \cup {W.thr[t].local[var]},
                  !.process[field] = IF r = S_OK THEN value ELSE @,
                  !.pc = next]]

\* MileCloseHandle(var)
MileCloseHandle(W, t, var, next) ==
    [W EXCEPT !.handles = CloseHandle(@, W.thr[t].local[var]),
              !.thr[t] = [@ EXCEPT !.used = @ \cup {W.thr[t].local[var]},
                                   !.pc = next]]

\* ------------------------------------------ the steps of the function
\* the thread's state after a call given the handle in variable var
Called(W, t, r, var) ==
    [W.thr[t] EXCEPT !.local.hr = r, !.used = @ \cup {W.thr[t].local[var]}]

Line154(W, t, r) ==
    MileOpenToken(W, t, r, CallerProcessTokenId, "CurrentProcessToken", "L161")

Line161(W, t, r) ==
    MileDuplicateToken(W, t, r, "CurrentProcessToken", "TokenImpersonation",
        "SecurityImpersonation", "DuplicatedCurrentProcessToken", "L175")

Line175(W, t, r) ==
    [W EXCEPT !.thr[t] = CheckedIn([@ EXCEPT !.local.hr = r], r, "L183")]

\* The privilege enabled on the token of the process instead of on the
\* duplicate.
Line183_OnProcessToken(W, t, r) ==
    MileAdjustTokenPrivilegesSimple(W, t, r, "CurrentProcessToken",
        "SeDebugPrivilege", "L192")

Line183(W, t, r) ==
    MileAdjustTokenPrivilegesSimple(W, t, r, "DuplicatedCurrentProcessToken",
        "SeDebugPrivilege", "L192")

Line192(W, t, r) ==
    MileSetCurrentThreadToken(W, t, r, "DuplicatedCurrentProcessToken", "L198")

Line198(W, t, r) ==
    MileOpenToken(W, t, r, W.thr[t].threadToken, "CurrentProcessToken", "L205")

Line205(W, t, r) ==
    LET s == Called(W, t, r, "CurrentProcessToken")
    IN  [W EXCEPT !.thr[t] = CheckedIn(
            IF r = S_OK
            THEN [s EXCEPT !.local.SessionID =
                    W.tokens[W.handles[s.local.CurrentProcessToken].obj].session]
            ELSE s, r, "L216")]

Line216(W, t, r) ==
    MileOpenToken(W, t, r, LsassProcessTokenId, "OriginalLsassProcessToken", "L224")

Line224(W, t, r) ==
    MileDuplicateToken(W, t, r, "OriginalLsassProcessToken", "TokenImpersonation",
        "SecurityImpersonation", "SystemToken", "L236")

Line236(W, t, r) ==
    MileAdjustTokenAllPrivileges(W, t, r, "SystemToken", "L244")

Line244(W, t, r) ==
    MileSetCurrentThreadToken(W, t, r, "SystemToken", "L250")

Line250(W, t, r) ==
    MileOpenToken(W, t, r, ServiceProcessTokenId, "OriginalToken", "L259")

Line259(W, t, r) ==
    MileDuplicateToken(W, t, r, "OriginalToken", "TokenPrimary",
        "SecurityIdentification", "hToken", "L271")

Line271(W, t, r) ==
    MileSetTokenInformation(W, t, r, "hToken", W.thr[t].local.SessionID, "L281")

Line281(W, t, r) ==
    MileAdjustTokenAllPrivileges(W, t, r, "hToken", "L287")

Line287(W, t, r) ==
    MileSetTokenMandatoryLabel(W, t, r, "hToken", MandatoryLabelRid, "L309")

Line309(W, t, r) ==
    LET s == Called(W, t, r, "hToken")
    IN  [W EXCEPT !.thr[t] = NestedIn(
            IF r = S_OK
            THEN [s EXCEPT !.memory.environment = "allocated",
                           !.memory.environmentValue = TargetEnvironment,
                           !.local.lpEnvironment = "block"]
            ELSE s, r, "L312", "L349")]

Line312(W, t, r) ==
    LET s == [W.thr[t] EXCEPT !.local.hr = r]
    IN  [W EXCEPT !.thr[t] = NestedIn(
            IF r = S_OK
            THEN [s EXCEPT !.memory.string = "allocated",
                           !.memory.stringValue = ExpandEnvironmentStrings(
                                s.CommandLine, CallerEnvironment),
                           !.local.ExpandedString = "buffer"]
            ELSE s, r, "L317", "L346")]

Line317(W, t, r) ==
    LET s  == Called(W, t, r, "hToken")
        W1 == NewHandleIn(W, t, "process", 0)
        W2 == NewHandleIn(W1, t, "thread", 0)
    IN  IF r = S_OK
        THEN [W2 EXCEPT !.thr[t] = NestedIn(
                [s EXCEPT !.process =
                            [created |-> TRUE,
                             token |-> W.handles[s.local.hToken].obj,
                             session |-> W.tokens[W.handles[s.local.hToken].obj].session,
                             commandLine |-> s.memory.stringValue,
                             environment |-> s.memory.environmentValue,
                             flags |-> dwCreationFlags,
                             desktop |-> "WinSta0\\Default",
                             suspended |-> "CREATE_SUSPENDED" \in dwCreationFlags,
                             priority |-> 32,
                             exited |-> FALSE],
                          !.local.hProcess = FreshHandle(W, t),
                          !.local.hThread = FreshHandle(W1, t)],
                r, "L331", "L343")]
        ELSE [W EXCEPT !.thr[t] = NestedIn(s, r, "L331", "L343")]

Line331(W, t, r) ==
    ProcessChanged(W, t, r, "hProcess", "priority", ProcessPriority, "L334")

Line334(W, t, r) ==
    ProcessChanged(W, t, r, "hThread", "suspended", FALSE, "L336")

Line336(W, t, r) ==
    [W EXCEPT !.thr[t] = [@ EXCEPT !.used = @ \cup {W.thr[t].local.hProcess},
                                   !.pc = "L339"]]

Line339(W, t, r) == MileCloseHandle(W, t, "hProcess", "L340")

Line340(W, t, r) == MileCloseHandle(W, t, "hThread", "L343")

Line343(W, t, r) ==
    [W EXCEPT !.thr[t] = [@ EXCEPT !.memory.string = "freed",
                                   !.memory.stringFrees = @ + 1,
                                   !.pc = "L346"]]

Line346(W, t, r) ==
    [W EXCEPT !.thr[t] = [@ EXCEPT !.memory.environment = "freed",
                                   !.memory.environmentFrees = @ + 1,
                                   !.pc = "L349"]]

Line349(W, t, r) ==
    [W EXCEPT !.thr[t] = [@ EXCEPT !.pc = "ScopeExit", !.retval = S_OK]]

\* the handle variables the Handler lambda of a thread with locals l tests,
\* in the order it tests them
HandlerVariablesOf(l) ==
    << l.CurrentProcessToken, l.DuplicatedCurrentProcessToken,
       l.OriginalLsassProcessToken, l.SystemToken, l.hToken,
       l.OriginalToken >>

\* The positions of a thread inside the Handler: before the call at line
\* 121, 126, 131, 136, 141, 146 (MileCloseHandle) and 149
\* (MileSetCurrentThreadToken).  A thread that leaves the function is at
\* "ScopeExit", before the first of the calls it will make.
HandlerPositions == << "H121", "H126", "H131", "H136", "H141", "H146", "H149" >>

\* ~ScopeExitEventHandler(): Handler runs on the returning thread, which
\* holds no lock: each call it makes is a step of its own, and the other
\* thread may run between two of them.  The step is the next call the
\* Handler makes from the thread's position: the close of the next variable
\* that is not INVALID_HANDLE_VALUE, or, after the last, the call that clears
\* the thread's token, on which the handler ends.
Line117(W, t, r) ==
    LET hs == HandlerVariablesOf(W.thr[t].local)
        at == IF W.thr[t].pc = "ScopeExit" THEN 1
              ELSE CHOOSE i \in DOMAIN HandlerPositions :
                        HandlerPositions[i] = W.thr[t].pc
        NextCall(i) ==
            IF \E j \in i..Len(hs) : hs[j] # INVALID_HANDLE_VALUE
            THEN CHOOSE j \in i..Len(hs) :
                    /\ hs[j] # INVALID_HANDLE_VALUE
                    /\ \A k \in i..(j - 1) : hs[k] = INVALID_HANDLE_VALUE
            ELSE Len(hs) + 1
        j == NextCall(at)
    IN  IF j > Len(hs)
        THEN [W EXCEPT !.thr[t] = [@ EXCEPT !.threadToken = 0, !.pc = "Done"]]
        ELSE [W EXCEPT !.handles = CloseHandle(@, hs[j]),
                       !.thr[t] = [@ EXCEPT
                            !.used = @ \cup {hs[j]},
                            !.pc = HandlerPositions[NextCall(j + 1)]]]

\* What the call at the thread's position can report: a primitive given a
\* handle cannot succeed on a value that is no open handle, and
\* MileOpenCurrentThreadToken cannot succeed on a thread without a token;
\* the calls that release, and the returns, do not fail.
Results(W, t) ==
    LET s == W.thr[t]
        l == s.local
    IN  CASE s.pc \in {"L154", "L175", "L216", "L250", "L312"} -> HResults
          [] s.pc = "L198" ->
                IF s.threadToken = 0 THEN HResultFailures ELSE HResults
          [] s.pc \in {"L161", "L205"} -> OutcomesIn(W, l.CurrentProcessToken)
          [] s.pc \in {"L183", "L192"} ->
                OutcomesIn(W, l.DuplicatedCurrentProcessToken)
          [] s.pc = "L224" -> OutcomesIn(W, l.OriginalLsassProcessToken)
          [] s.pc \in {"L236", "L244"} -> OutcomesIn(W, l.SystemToken)
          [] s.pc = "L259" -> OutcomesIn(W, l.OriginalToken)
          [] s.pc \in {"L271", "L281", "L287", "L309", "L317"} ->
                OutcomesIn(W, l.hToken)
          [] s.pc \in {"L331", "L336"} -> OutcomesIn(W, l.hProcess)
          [] s.pc = "L334" -> OutcomesIn(W, l.hThread)
          [] OTHER -> {S_OK}

\* Each step of thread t is made in the world both threads run in and, with
\* the same result, in the world where t runs alone.
Thread154(t) ==
    /\ world.thr[t].pc = "L154"
    /\ \E r \in Results(world, t) :
        /\ world' = Line154(world, t, r)
        /\ alone' = [alone EXCEPT ![t] = Line154(alone[t], t, r)]
    /\ UNCHANGED <<pipelineVars, wrapperVars, libraryVars, mainVars, resourceVars>>

Thread161(t) ==
    /\ world.thr[t].pc = "L161"
    /\ \E r \in Results(world, t) :
        /\ world' = Line161(world, t, r)
        /\ alone' = [alone EXCEPT ![t] = Line161(alone[t], t, r)]
    /\ UNCHANGED <<pipelineVars, wrapperVars, libraryVars, mainVars, resourceVars>>

Thread175(t) ==
    /\ world.thr[t].pc = "L175"
    /\ \E r \in Results(world, t) :
        /\ world' = Line175(world, t, r)
        /\ alone' = [alone EXCEPT ![t] = Line175(alone[t], t, r)]
    /\ UNCHANGED <<pipelineVars, wrapperVars, libraryVars, mainVars, resourceVars>>

Thread183(t) ==
    /\ world.thr[t].pc = "L183"
    /\ \E r \in Results(world, t) :
        /\ world' = Line183(world, t, r)
        /\ alone' = [alone EXCEPT ![t] = Line183(alone[t], t, r)]
    /\ UNCHANGED <<pipelineVars, wrapperVars, libraryVars, mainVars, resourceVars>>

Thread192(t) ==
    /\ world.thr[t].pc = "L192"
    /\ \E r \in Results(world, t) :
        /\ world' = Line192(world, t, r)
        /\ alone' = [alone EXCEPT ![t] = Line192(alone[t], t, r)]
    /\ UNCHANGED <<pipelineVars, wrapperVars, libraryVars, mainVars, resourceVars>>

Thread198(t) ==
    /\ world.thr[t].pc = "L198"
    /\ \E r \in Results(world, t) :
        /\ world' = Line198(world, t, r)
        /\ alone' = [alone EXCEPT ![t] = Line198(alone[t], t, r)]
    /\ UNCHANGED <<pipelineVars, wrapperVars, libraryVars, mainVars, resourceVars>>

Thread205(t) ==
    /\ world.thr[t].pc = "L205"
    /\ \E r \in Results(world, t) :
        /\ world' = Line205(world, t, r)
        /\ alone' = [alone EXCEPT ![t] = Line205(alone[t], t, r)]
    /\ UNCHANGED <<pipelineVars, wrapperVars, libraryVars, mainVars, resourceVars>>

Thread216(t) ==
    /\ world.thr[t].pc = "L216"
    /\ \E r \in Results(world, t) :
        /\ world' = Line216(world, t, r)
        /\ alone' = [alone EXCEPT ![t] = Line216(alone[t], t, r)]
    /\ UNCHANGED <<pipelineVars, wrapperVars, libraryVars, mainVars, resourceVars>>

Thread224(t) ==
    /\ world.thr[t].pc = "L224"
    /\ \E r \in Results(world, t) :
        /\ world' = Line224(world, t, r)
        /\ alone' = [alone EXCEPT ![t] = Line224(alone[t], t, r)]
    /\ UNCHANGED <<pipelineVars, wrapperVars, libraryVars, mainVars, resourceVars>>

Thread236(t) ==
    /\ world.thr[t].pc = "L236"
    /\ \E r \in Results(world, t) :
        /\ world' = Line236(world, t, r)
        /\ alone' = [alone EXCEPT ![t] = Line236(alone[t], t, r)]
    /\ UNCHANGED <<pipelineVars, wrapperVars, libraryVars, mainVars, resourceVars>>

Thread244(t) ==
    /\ world.thr[t].pc = "L244"
    /\ \E r \in Results(world, t) :
        /\ world' = Line244(world, t, r)
        /\ alone' = [alone EXCEPT ![t] = Line244(alone[t], t, r)]
    /\ UNCHANGED <<pipelineVars, wrapperVars, libraryVars, mainVars, resourceVars>>

Thread250(t) ==
    /\ world.thr[t].pc = "L250"
    /\ \E r \in Results(world, t) :
        /\ world' = Line250(world, t, r)
        /\ alone' = [alone EXCEPT ![t] = Line250(alone[t], t, r)]
    /\ UNCHANGED <<pipelineVars, wrapperVars, libraryVars, mainVars, resourceVars>>

Thread259(t) ==
    /\ world.thr[t].pc = "L259"
    /\ \E r \in Results(world, t) :
        /\ world' = Line259(world, t, r)
        /\ alone' = [alone EXCEPT ![t] = Line259(alone[t], t, r)]
    /\ UNCHANGED <<pipelineVars, wrapperVars, libraryVars, mainVars, resourceVars>>

Thread271(t) ==
    /\ world.thr[t].pc = "L271"
    /\ \E r \in Results(world, t) :
        /\ world' = Line271(world, t, r)
        /\ alone' = [alone EXCEPT ![t] = Line271(alone[t], t, r)]
    /\ UNCHANGED <<pipelineVars, wrapperVars, libraryVars, mainVars, resourceVars>>

Thread281(t) ==
    /\ world.thr[t].pc = "L281"
    /\ \E r \in Results(world, t) :
        /\ world' = Line281(world, t, r)
        /\ alone' = [alone EXCEPT ![t] = Line281(alone[t], t, r)]
    /\ UNCHANGED <<pipelineVars, wrapperVars, libraryVars, mainVars, resourceVars>>

Thread287(t) ==
    /\ world.thr[t].pc = "L287"
    /\ \E r \in Results(world, t) :
        /\ world' = Line287(world, t, r)
        /\ alone' = [alone EXCEPT ![t] = Line287(alone[t], t, r)]
    /\ UNCHANGED <<pipelineVars, wrapperVars, libraryVars, mainVars, resourceVars>>

Thread309(t) ==
    /\ world.thr[t].pc = "L309"
    /\ \E r \in Results(world, t) :
        /\ world' = Line309(world, t, r)
        /\ alone' = [alone EXCEPT ![t] = Line309(alone[t], t, r)]
    /\ UNCHANGED <<pipelineVars, wrapperVars, libraryVars, mainVars, resourceVars>>

Thread312(t) ==
    /\ world.thr[t].pc = "L312"
    /\ \E r \in Results(world, t) :
        /\ world' = Line312(world, t, r)
        /\ alone' = [alone EXCEPT ![t] = Line312(alone[t], t, r)]
    /\ UNCHANGED <<pipelineVars, wrapperVars, libraryVars, mainVars, resourceVars>>

Thread317(t) ==
    /\ world.thr[t].pc = "L317"
    /\ \E r \in Results(world, t) :
        /\ world' = Line317(world, t, r)
        /\ alone' = [alone EXCEPT ![t] = Line317(alone[t], t, r)]
    /\ UNCHANGED <<pipelineVars, wrapperVars, libraryVars, mainVars, resourceVars>>

Thread331(t) ==
    /\ world.thr[t].pc = "L331"
    /\ \E r \in Results(world, t) :
        /\ world' = Line331(world, t, r)
        /\ alone' = [alone EXCEPT ![t] = Line331(alone[t], t, r)]
    /\ UNCHANGED <<pipelineVars, wrapperVars, libraryVars, mainVars, resourceVars>>

Thread334(t) ==
    /\ world.thr[t].pc = "L334"
    /\ \E r \in Results(world, t) :
        /\ world' = Line334(world, t, r)
        /\ alone' = [alone EXCEPT ![t] = Line334(alone[t], t, r)]
    /\ UNCHANGED <<pipelineVars, wrapperVars, libraryVars, mainVars, resourceVars>>

Thread336(t) ==
    /\ world.thr[t].pc = "L336"
    /\ \E r \in Results(world, t) :
        /\ world' = Line336(world, t, r)
        /\ alone' = [alone EXCEPT ![t] = Line336(alone[t], t, r)]
    /\ UNCHANGED <<pipelineVars, wrapperVars, libraryVars, mainVars, resourceVars>>

Thread339(t) ==
    /\ world.thr[t].pc = "L339"
    /\ \E r \in Results(world, t) :
        /\ world' = Line339(world, t, r)
        /\ alone' = [alone EXCEPT ![t] = Line339(alone[t], t, r)]
    /\ UNCHANGED <<pipelineVars, wrapperVars, libraryVars, mainVars, resourceVars>>

Thread340(t) ==
    /\ world.thr[t].pc = "L340"
    /\ \E r \in Results(world, t) :
        /\ world' = Line340(world, t, r)
        /\ alone' = [alone EXCEPT ![t] = Line340(alone[t], t, r)]
    /\ UNCHANGED <<pipelineVars, wrapperVars, libraryVars, mainVars, resourceVars>>

Thread343(t) ==
    /\ world.thr[t].pc = "L343"
    /\ \E r \in Results(world, t) :
        /\ world' = Line343(world, t, r)
        /\ alone' = [alone EXCEPT ![t] = Line343(alone[t], t, r)]
    /\ UNCHANGED <<pipelineVars, wrapperVars, libraryVars, mainVars, resourceVars>>

Thread346(t) ==
    /\ world.thr[t].pc = "L346"
    /\ \E r \in Results(world, t) :
        /\ world' = Line346(world, t, r)
        /\ alone' = [alone EXCEPT ![t] = Line346(alone[t], t, r)]
    /\ UNCHANGED <<pipelineVars, wrapperVars, libraryVars, mainVars, resourceVars>>

Thread349(t) ==
    /\ world.thr[t].pc = "L349"
    /\ \E r \in Results(world, t) :
        /\ world' = Line349(world, t, r)
        /\ alone' = [alone EXCEPT ![t] = Line349(alone[t], t, r)]
    /\ UNCHANGED <<pipelineVars, wrapperVars, libraryVars, mainVars, resourceVars>>

Thread117(t) ==
    /\ world.thr[t].pc \in {"ScopeExit"} \cup
            {HandlerPositions[i] : i \in DOMAIN HandlerPositions}
    /\ \E r \in Results(world, t) :
        /\ world' = Line117(world, t, r)
        /\ alone' = [alone EXCEPT ![t] = Line117(alone[t], t, r)]
    /\ UNCHANGED <<pipelineVars, wrapperVars, libraryVars, mainVars, resourceVars>>

ThreadsInit ==
    /\ NoPipeline
    /\ NoWrapper
    /\ NoLibrary
    /\ NoMain
    /\ \E s \in 1..MaxSession :
        /\ world = InitialWorld(s)
        /\ alone = [t \in Threads |-> InitialWorld(s)]

ThreadsNext ==
    \E t \in Threads :
        \/ Thread154(t)
        \/ Thread161(t)
        \/ Thread175(t)
        \/ Thread183(t)
        \/ Thread192(t)
        \/ Thread198(t)
        \/ Thread205(t)
        \/ Thread216(t)
        \/ Thread224(t)
        \/ Thread236(t)
        \/ Thread244(t)
        \/ Thread250(t)
        \/ Thread259(t)
        \/ Thread271(t)
        \/ Thread281(t)
        \/ Thread287(t)
        \/ Thread309(t)
        \/ Thread312(t)
        \/ Thread317(t)
        \/ Thread331(t)
        \/ Thread334(t)
        \/ Thread336(t)
        \/ Thread339(t)
        \/ Thread340(t)
        \/ Thread343(t)
        \/ Thread346(t)
        \/ Thread349(t)
        \/ Thread117(t)

ThreadsSpec == ThreadsInit /\ [][ThreadsNext]_vars

\* ------------------------------------------------------------------------
\* What belongs to thread t in world W: its own state, the handles it
\* acquired and the tokens those handles refer to.
TokensOf(W, t) ==
    {W.handles[h].obj : h \in {g \in OwnedBy(W, t) : W.handles[g].kind = "token"}}

View(W, t) ==
    [thr |-> W.thr[t],
     handles |-> [h \in OwnedBy(W, t) |-> W.handles[h]],
     tokens |-> [k \in TokensOf(W, t) |-> W.tokens[k]]]

SharedTokens == 1..Len(InitialTokens(0))

\* C12: two calls of NSudoCreateProcess interleaved in any way on two
\* threads are independent: a thread's impersonation token is one its own
\* call made, and is set and cleared by its own call only; no call gives a
\* primitive, or closes, a handle the other acquired; and each call returns
\* the status, and leaves the state (its variables, its handles and how
\* often each was closed, its tokens, its memory, its process), that it
\* returns and leaves when it runs alone with the same results of the
\* primitives. The tokens of the processes, which the calls share, are
\* never changed.
C12_InvocationsIndependent ==
    \A t \in Threads :
        /\ View(world, t) = View(alone[t], t)
        /\ Results(world, t) = Results(alone[t], t)
        /\ world.thr[t].used \subseteq OwnedBy(world, t)
        /\ world.thr[t].threadToken # 0 =>
            /\ world.thr[t].threadToken \notin SharedTokens
            /\ \E h \in OwnedBy(world, t) :
                /\ world.handles[h].obj = world.thr[t].threadToken
                /\ world.tokens[world.handles[h].obj].from # 0
        /\ \A u \in Threads \ {t} :
            /\ View(alone[t], u) = View(InitialWorld(world.tokens[CallerProcessTokenId].session), u)
            /\ world.thr[u].threadToken # 0 =>
                    world.thr[u].threadToken # world.thr[t].threadToken
        /\ \A k \in SharedTokens : world.tokens[k] = alone[t].tokens[k]
        /\ world.tokens[CallerProcessTokenId] =
                InitialTokens(world.tokens[CallerProcessTokenId].session)[CallerProcessTokenId]
        /\ world.thr[t].pc = "Done" =>
            /\ world.thr[t].retval = alone[t].thr[t].retval
            /\ world.thr[t].process = alone[t].thr[t].process
            /\ world.thr[t].threadToken = 0

\* Both calls are under way at once, one with the SYSTEM impersonation token
\* installed and the other with the duplicate of the caller's token, each
\* holding handles of its own.
C12_Witness ==
    /\ world.thr[1].pc = "L250"
    /\ world.thr[2].pc = "L216"
    /\ world.thr[1].threadToken # 0
    /\ world.thr[2].threadToken # 0
    /\ world.thr[1].threadToken # world.thr[2].threadToken

\* ------------------------------------------------------------------------
\* C21: once MileCreateProcessAsUser has succeeded the function goes on to
\* call MileSetPriorityClass and MileResumeThread, closes the process and
\* thread handles and returns zero, whatever those two calls report: no
\* step after the creation leaves the function, and a call that returned
\* after a creation made each of the four calls once, in this order, and
\* returned S_OK. A zero status after a creation therefore says neither
\* that the priority was set nor that the process runs.
C21_AfterCreationAlwaysZero ==
    /\ (process.created /\ pc = "ScopeExit") =>
            trace[Len(trace)].op = "MileDestroyEnvironmentBlock"
    /\ (process.created /\ Returned) =>
        /\ retval = S_OK
        /\ Cardinality(Calls("MileSetPriorityClass")) = 1
        /\ Cardinality(Calls("MileResumeThread")) = 1
        /\ Cardinality(ClosesOf(local.hProcess)) = 1
        /\ Cardinality(ClosesOf(local.hThread)) = 1
        /\ \A c \in Calls("MileCreateProcessAsUser") :
           \A p \in Calls("MileSetPriorityClass") :
           \A q \in Calls("MileResumeThread") :
           \A i \in ClosesOf(local.hProcess) :
           \A j \in ClosesOf(local.hThread) :
                c < p /\ p < q /\ q < i /\ i < j
        /\ \A p \in Calls("MileSetPriorityClass") :
                (process.priority = ProcessPriority) <=> (trace[p].hr = S_OK)
        /\ \A q \in Calls("MileResumeThread") :
                (~process.suspended) <=> (trace[q].hr = S_OK)

\* The call returned zero after a creation although both the call that sets
\* the priority and the call that resumes the thread failed: the process is
\* still suspended and its priority is the one it was created with.
C21_Witness ==
    /\ Returned
    /\ retval = S_OK
    /\ process.created
    /\ process.suspended
    /\ process.priority # ProcessPriority
    /\ \A p \in Calls("MileSetPriorityClass") \cup Calls("MileResumeThread") :
            trace[p].hr # S_OK
    /\ handles[local.hProcess].closes = 1
    /\ handles[local.hThread].closes = 1


-----------------------------------------------------------------------------
\* Mile::ScopeExitEventHandler (NSudoAPI.cpp, lines 60-90): a guard object
\* holding a handler and the flag m_Canceled.  Several guards live side by
\* side; each is constructed, may be cancelled any number of times while it
\* lives, and is destroyed when its scope ends.

MaxGuards == 3

MaxCancels == 2

Guards == 1..MaxGuards

\* state: "none" before the constructor, "alive" within the scope, "destroyed"
\* after it; runs counts the calls of m_EventHandler, cancels those of Cancel.
NoGuard == [state |-> "none", m_Canceled |-> FALSE, runs |-> 0, cancels |-> 0]

\* A destructor that calls the handler whatever m_Canceled says.
ScopeExitDestructor_Untested(g) ==
    /\ scopeExit[g].state = "alive"
    /\ scopeExit' = [scopeExit EXCEPT ![g].state = "destroyed",
                                      ![g].runs = @ + 1]
    /\ UNCHANGED <<pipelineVars, wrapperVars, threadsVars, lockVars,
                   singletonVars, mainVars, resourceVars>>

\* explicit ScopeExitEventHandler(EventHandlerType&&), lines 72-77.
ScopeExitConstructor(g) ==
    /\ scopeExit[g].state = "none"
    /\ scopeExit' = [scopeExit EXCEPT ![g].state = "alive",
                                      ![g].m_Canceled = FALSE]
    /\ UNCHANGED <<pipelineVars, wrapperVars, threadsVars, lockVars,
                   singletonVars, mainVars, resourceVars>>

\* void Cancel(), lines 87-90.
ScopeExitCancel(g) ==
    /\ scopeExit[g].state = "alive"
    /\ scopeExit[g].cancels < MaxCancels
    /\ scopeExit' = [scopeExit EXCEPT ![g].m_Canceled = TRUE,
                                      ![g].cancels = @ + 1]
    /\ UNCHANGED <<pipelineVars, wrapperVars, threadsVars, lockVars,
                   singletonVars, mainVars, resourceVars>>

\* ~ScopeExitEventHandler(), lines 79-85.
ScopeExitDestructor(g) ==
    /\ scopeExit[g].state = "alive"
    /\ scopeExit' = [scopeExit EXCEPT
            ![g].state = "destroyed",
            ![g].runs = IF ~scopeExit[g].m_Canceled THEN @ + 1 ELSE @]
    /\ UNCHANGED <<pipelineVars, wrapperVars, threadsVars, lockVars,
                   singletonVars, mainVars, resourceVars>>

ScopeInit ==
    /\ NoPipeline
    /\ NoWrapper
    /\ NoThreads
    /\ NoLocks
    /\ NoSingleton
    /\ NoMain
    /\ scopeExit = [g \in Guards |-> NoGuard]

ScopeNext ==
    \E g \in Guards :
        \/ ScopeExitConstructor(g)
        \/ ScopeExitCancel(g)
        \/ ScopeExitDestructor(g)

ScopeSpec == ScopeInit /\ [][ScopeNext]_vars

\* C22: a guard's handler runs exactly once, at destruction, if Cancel was
\* never called on the guard, and never if Cancel was called before the
\* destruction; as long as the scope has not ended the handler has not run.
C22_HandlerRunsOnceUnlessCanceled ==
    \A g \in Guards :
        /\ scopeExit[g].state # "destroyed" => scopeExit[g].runs = 0
        /\ scopeExit[g].state = "destroyed" =>
                scopeExit[g].runs = (IF scopeExit[g].cancels = 0 THEN 1 ELSE 0)

\* Three scopes have ended: one guard was never cancelled and ran its handler
\* once, one was cancelled once and one twice, and neither of them ran it.
C22_Witness ==
    /\ \A g \in Guards : scopeExit[g].state = "destroyed"
    /\ \E g \in Guards : scopeExit[g].cancels = 0 /\ scopeExit[g].runs = 1
    /\ \E g \in Guards : scopeExit[g].cancels = 1 /\ scopeExit[g].runs = 0
    /\ \E g \in Guards : scopeExit[g].cancels = 2 /\ scopeExit[g].runs = 0


-----------------------------------------------------------------------------
\* The locks of the M2 library and their guards (NSudo.cpp, lines 566-808):
\* one lock that two threads contend for.  The lock is a CCriticalSection or
\* a CSRWLock.  A thread takes and releases it through the member functions
\* of the lock, called directly, through the guards that wait for the lock
\* (AutoCriticalSectionLock, AutoSRWExclusiveLock, AutoSRWSharedLock) and
\* through the guards that try once (AutoTryCriticalSectionLock,
\* AutoTrySRWExclusiveLock, AutoTrySRWSharedLock).  A thread constructs
\* guards in nested scopes and leaves the scopes innermost first.

MaxDepth == 2

MaxHolds == 2

LockKinds == {"CCriticalSection", "CSRWLock"}

\* The ways a lock of the given kind is held: "Critical" through Lock,
\* TryLock and Unlock of CCriticalSection; "Exclusive" and "Shared" through
\* the functions of CSRWLock with these words in their names.  Each way has
\* its waiting guard and its trying guard.
LockModes(kind) ==
    IF kind = "CCriticalSection" THEN {"Critical"} ELSE {"Exclusive", "Shared"}

\* owner: the thread that holds the lock exclusively (0: none) and how often
\* (a critical section is recursive); shared: how often each thread holds the
\* slim lock in shared mode; deleted: ~CCriticalSection has run; broken: the
\* lock was released by a thread that did not hold it, or was used or owned
\* when deleted, and its state is no longer meaningful.
NewLock(kind) ==
    [kind |-> kind, owner |-> 0, count |-> 0,
     shared |-> [t \in Threads |-> 0], deleted |-> FALSE, broken |-> FALSE]

\* Whether thread t gets the lock now: what CCriticalSection::TryLock,
\* CSRWLock::TryExclusiveLock and CSRWLock::TrySharedLock return, and
\* whether Lock, ExclusiveLock and SharedLock return rather than wait.  A
\* critical section can be entered again by its owner; a slim lock cannot.
TryAcquires(L, t, mode) ==
    CASE mode = "Critical" -> L.owner \in {0, t}
      [] mode = "Exclusive" ->
            L.owner = 0 /\ \A u \in Threads : L.shared[u] = 0
      [] mode = "Shared" -> L.owner = 0

\* The locks that can result from a call of a locking function by thread t
\* that got the lock, or of a try-lock function that did not (got is false).
\* Using a critical section that was deleted is undefined: the call can
\* return either way whoever owns the section (see the actions), and it
\* leaves the section as a call with that result leaves a live one, or
\* destroys its state.
Acquired(L, t, mode, got) ==
    {IF ~got THEN L
     ELSE IF mode = "Shared" THEN [L EXCEPT !.shared[t] = @ + 1]
     ELSE [L EXCEPT !.owner = t,
                    !.count = IF L.owner = t THEN @ + 1 ELSE 1]}
    \cup (IF L.deleted THEN {[L EXCEPT !.broken = TRUE]} ELSE {})

\* CCriticalSection::Unlock, CSRWLock::ExclusiveUnlock and
\* CSRWLock::SharedUnlock called by thread t: the locks that can result.
\* A thread that holds the lock in that mode gives one acquisition back.
\* Releasing a lock the thread does not hold is undefined: the lock is taken
\* away from whoever holds it, or its state is destroyed.  So is releasing a
\* critical section that was deleted.
Unlocked(L, t, mode) ==
    LET ExclusiveReleased ==
            IF L.count > 1 THEN [L EXCEPT !.count = @ - 1]
            ELSE [L EXCEPT !.count = 0, !.owner = 0]
        Broken == [L EXCEPT !.broken = TRUE]
    IN  (IF mode = "Shared"
         THEN IF L.shared[t] > 0
              THEN {[L EXCEPT !.shared[t] = @ - 1]}
              ELSE {Broken}
                   \cup {[L EXCEPT !.shared[u] = @ - 1] :
                             u \in {v \in Threads : L.shared[v] > 0}}
                   \cup (IF L.owner # 0 THEN {ExclusiveReleased} ELSE {})
         ELSE IF L.owner = t
              THEN {ExclusiveReleased}
              ELSE {Broken}
                   \cup (IF L.owner # 0 THEN {ExclusiveReleased} ELSE {}))
        \cup (IF L.deleted THEN {Broken} ELSE {})

\* ~CCriticalSection() (lines 577-580): MileDeleteCriticalSection.  A CSRWLock
\* has no destructor.  Deleting a critical section that is owned is
\* undefined: the section is deleted as it stands, or reset, or its state is
\* destroyed.  The guards keep their pointer to it.
CriticalSectionDestructor ==
    /\ ~lock.broken
    /\ lock.kind = "CCriticalSection"
    /\ ~lock.deleted
    /\ lock' \in {[lock EXCEPT !.deleted = TRUE]}
            \cup (IF lock.owner # 0
                  THEN {[lock EXCEPT !.deleted = TRUE, !.owner = 0,
                                     !.count = 0],
                        [lock EXCEPT !.deleted = TRUE, !.broken = TRUE]}
                  ELSE {})
    /\ UNCHANGED autoLocks
    /\ UNCHANGED <<pipelineVars, wrapperVars, threadsVars, scopeVars,
                   singletonVars, mainVars, resourceVars>>

\* How often thread t holds the lock in the mode, as far as the lock records.
Holds(L, t, mode) ==
    IF mode = "Shared" THEN L.shared[t]
    ELSE IF L.owner = t THEN L.count ELSE 0

\* Lock(), ExclusiveLock() and SharedLock() called directly (lines 582-585,
\* 613-616, 628-631): the call returns once the thread has the lock.  On a
\* deleted critical section the call is undefined and can return at once.
LockCall(t) ==
    /\ ~lock.broken
    /\ \E mode \in LockModes(lock.kind) :
        /\ Holds(lock, t, mode) < MaxHolds
        /\ lock.deleted \/ TryAcquires(lock, t, mode)
        /\ lock' \in Acquired(lock, t, mode, TRUE)
    /\ UNCHANGED autoLocks
    /\ UNCHANGED <<pipelineVars, wrapperVars, threadsVars, scopeVars,
                   singletonVars, mainVars, resourceVars>>

\* TryLock(), TryExclusiveLock() and TrySharedLock() called directly (lines
\* 593-596, 618-621, 633-636): the lock is taken if it can be taken now.
\* On a deleted critical section the call is undefined and can return true
\* or false.
TryLockCall(t) ==
    /\ ~lock.broken
    /\ \E mode \in LockModes(lock.kind) :
        /\ Holds(lock, t, mode) < MaxHolds
        /\ \E got \in (IF lock.deleted THEN BOOLEAN
                       ELSE {TryAcquires(lock, t, mode)}) :
                lock' \in Acquired(lock, t, mode, got)
    /\ UNCHANGED autoLocks
    /\ UNCHANGED <<pipelineVars, wrapperVars, threadsVars, scopeVars,
                   singletonVars, mainVars, resourceVars>>

\* Unlock(), ExclusiveUnlock() and SharedUnlock() called directly (lines
\* 587-590, 623-626, 638-641).
UnlockCall(t) ==
    /\ ~lock.broken
    /\ \E mode \in LockModes(lock.kind) :
        lock' \in Unlocked(lock, t, mode)
    /\ UNCHANGED autoLocks
    /\ UNCHANGED <<pipelineVars, wrapperVars, threadsVars, scopeVars,
                   singletonVars, mainVars, resourceVars>>

\* The constructors of AutoCriticalSectionLock, AutoSRWExclusiveLock and
\* AutoSRWSharedLock (lines 655-660, 710-715, 766-771): they call the
\* function that waits for the lock, which on a deleted critical section
\* can return at once.  These guards have no member m_IsLocked; the field
\* says that the locking function returned.
AutoLockConstructor(t) ==
    /\ ~lock.broken
    /\ Len(autoLocks[t]) < MaxDepth
    /\ \E mode \in LockModes(lock.kind) :
        /\ lock.deleted \/ TryAcquires(lock, t, mode)
        /\ lock' \in Acquired(lock, t, mode, TRUE)
        /\ autoLocks' = [autoLocks EXCEPT ![t] =
                Append(@, [guard |-> "Auto", mode |-> mode,
                           m_IsLocked |-> TRUE])]
    /\ UNCHANGED <<pipelineVars, wrapperVars, threadsVars, scopeVars,
                   singletonVars, mainVars, resourceVars>>

\* Their destructors (lines 662-665, 717-720, 773-776), of the innermost
\* guard of thread t.
AutoLockDestructor(t) ==
    /\ ~lock.broken
    /\ autoLocks[t] # <<>>
    /\ autoLocks[t][Len(autoLocks[t])].guard = "Auto"
    /\ lock' \in Unlocked(lock, t, autoLocks[t][Len(autoLocks[t])].mode)
    /\ autoLocks' = [autoLocks EXCEPT ![t] = SubSeq(@, 1, Len(@) - 1)]
    /\ UNCHANGED <<pipelineVars, wrapperVars, threadsVars, scopeVars,
                   singletonVars, mainVars, resourceVars>>

\* The constructors of AutoTryCriticalSectionLock, AutoTrySRWExclusiveLock
\* and AutoTrySRWSharedLock (lines 680-685, 736-741, 792-797): m_IsLocked is
\* what the try-lock call returned, which on a deleted critical section is
\* true or false whoever owns the section.
AutoTryLockConstructor(t) ==
    /\ ~lock.broken
    /\ Len(autoLocks[t]) < MaxDepth
    /\ \E mode \in LockModes(lock.kind) :
        \E got \in (IF lock.deleted THEN BOOLEAN
                    ELSE {TryAcquires(lock, t, mode)}) :
            /\ lock' \in Acquired(lock, t, mode, got)
            /\ autoLocks' = [autoLocks EXCEPT ![t] =
                    Append(@, [guard |-> "AutoTry", mode |-> mode,
                               m_IsLocked |-> got])]
    /\ UNCHANGED <<pipelineVars, wrapperVars, threadsVars, scopeVars,
                   singletonVars, mainVars, resourceVars>>

\* Their destructors (lines 687-690, 743-746, 799-802), of the innermost
\* guard of thread t: they call the unlock function and do not read
\* m_IsLocked.
AutoTryLockDestructor(t) ==
    /\ ~lock.broken
    /\ autoLocks[t] # <<>>
    /\ autoLocks[t][Len(autoLocks[t])].guard = "AutoTry"
    /\ lock' \in Unlocked(lock, t, autoLocks[t][Len(autoLocks[t])].mode)
    /\ autoLocks' = [autoLocks EXCEPT ![t] = SubSeq(@, 1, Len(@) - 1)]
    /\ UNCHANGED <<pipelineVars, wrapperVars, threadsVars, scopeVars,
                   singletonVars, mainVars, resourceVars>>

LockInit ==
    /\ NoPipeline
    /\ NoWrapper
    /\ NoThreads
    /\ NoScopes
    /\ NoSingleton
    /\ NoMain
    /\ \E kind \in LockKinds : lock = NewLock(kind)
    /\ autoLocks = [t \in Threads |-> <<>>]

LockNext ==
    \/ CriticalSectionDestructor
    \/ \E t \in Threads :
        \/ LockCall(t)
        \/ TryLockCall(t)
        \/ UnlockCall(t)
        \/ AutoLockConstructor(t)
        \/ AutoLockDestructor(t)
        \/ AutoTryLockConstructor(t)
        \/ AutoTryLockDestructor(t)

LockSpec == LockInit /\ [][LockNext]_vars

\* Thread t leaves the scope of its innermost guard, a try-lock guard whose
\* try-lock failed.
FailedGuardLeavesScope(t) ==
    /\ autoLocks[t] # <<>>
    /\ autoLocks[t][Len(autoLocks[t])].guard = "AutoTry"
    /\ ~autoLocks[t][Len(autoLocks[t])].m_IsLocked
    /\ autoLocks'[t] = SubSeq(autoLocks[t], 1, Len(autoLocks[t]) - 1)

\* C23: a try-lock guard releases the lock at scope exit only if it acquired
\* it: with two threads contending for one lock, the scope exit of a guard
\* whose try-lock failed leaves the lock as it is, in particular with the
\* thread that holds it, so the holder's critical section stays exclusive.
\* This is stated of a lock that exists: nothing is claimed of a critical
\* section that was deleted.
C23_TryGuardsReleaseOnlyIfAcquired ==
    [][\A t \in Threads :
            FailedGuardLeavesScope(t) /\ ~lock.deleted => lock' = lock]_vars


-----------------------------------------------------------------------------
\* M2::CSingleton<ClassType>::Get (NSudo.cpp, lines 816-839) called by
\* several threads, each of them again and again.  The static members
\* m_SingletonCS and m_Instance are shared; 0 stands for nullptr and for a
\* critical section nobody owns, and the instances made are numbered from 1.

MaxCallers == 4

Callers == 1..MaxCallers

\* A caller outside Get: value is what its call in progress is about to
\* return, result what its last completed call returned, if one has.
IdleCaller == [pc |-> "idle", value |-> 0, returned |-> FALSE, result |-> 0]

\* A guard constructor that does not wait for the critical section.
GetLock_NoWait(t) ==
    /\ getters[t].pc = "idle"
    /\ singleton' = [singleton EXCEPT !.m_SingletonCS = t]
    /\ getters' = [getters EXCEPT ![t].pc = "L832"]
    /\ UNCHANGED <<pipelineVars, wrapperVars, threadsVars, scopeVars,
                   lockVars, mainVars, resourceVars>>

\* Line 830: AutoCriticalSectionLock's constructor calls Lock(), which waits
\* until no other thread owns the critical section.
GetLock(t) ==
    /\ getters[t].pc = "idle"
    /\ singleton.m_SingletonCS = 0
    /\ singleton' = [singleton EXCEPT !.m_SingletonCS = t]
    /\ getters' = [getters EXCEPT ![t].pc = "L832"]
    /\ UNCHANGED <<pipelineVars, wrapperVars, threadsVars, scopeVars,
                   lockVars, mainVars, resourceVars>>

\* Line 832: if (!this->m_Instance).
GetCheck(t) ==
    /\ getters[t].pc = "L832"
    /\ getters' = [getters EXCEPT ![t].pc =
            IF singleton.m_Instance = 0 THEN "L834" ELSE "L837"]
    /\ UNCHANGED singleton
    /\ UNCHANGED <<pipelineVars, wrapperVars, threadsVars, scopeVars,
                   lockVars, mainVars, resourceVars>>

\* Line 834: this->m_Instance = new ClassType().  The allocation or the
\* constructor may throw; then nothing is stored and the scope is left.
GetCreate(t) ==
    /\ getters[t].pc = "L834"
    /\ \/ /\ singleton' = [singleton EXCEPT
                    !.constructed = @ + 1,
                    !.m_Instance = singleton.constructed + 1]
          /\ getters' = [getters EXCEPT ![t].pc = "L837"]
       \/ /\ getters' = [getters EXCEPT ![t].pc = "unwind"]
          /\ UNCHANGED singleton
    /\ UNCHANGED <<pipelineVars, wrapperVars, threadsVars, scopeVars,
                   lockVars, mainVars, resourceVars>>

\* Line 837: the operand of return is read before the guard is destroyed.
GetReturn(t) ==
    /\ getters[t].pc = "L837"
    /\ getters' = [getters EXCEPT ![t].pc = "exit",
                                  ![t].value = singleton.m_Instance]
    /\ UNCHANGED singleton
    /\ UNCHANGED <<pipelineVars, wrapperVars, threadsVars, scopeVars,
                   lockVars, mainVars, resourceVars>>

\* Line 838: ~AutoCriticalSectionLock calls Unlock(), on return and when an
\* exception leaves the scope; then the caller has the value returned.
GetUnlock(t) ==
    /\ getters[t].pc \in {"exit", "unwind"}
    /\ singleton' = [singleton EXCEPT !.m_SingletonCS = 0]
    /\ getters' = [getters EXCEPT ![t] =
            IF @.pc = "exit"
            THEN [pc |-> "idle", value |-> 0, returned |-> TRUE,
                  result |-> @.value]
            ELSE [@ EXCEPT !.pc = "idle"]]
    /\ UNCHANGED <<pipelineVars, wrapperVars, threadsVars, scopeVars,
                   lockVars, mainVars, resourceVars>>

SingletonInit ==
    /\ NoPipeline
    /\ NoWrapper
    /\ NoThreads
    /\ NoScopes
    /\ NoLocks
    /\ NoMain
    /\ singleton = [m_Instance |-> 0, m_SingletonCS |-> 0, constructed |-> 0]
    /\ getters = [t \in Callers |-> IdleCaller]

SingletonNext ==
    \E t \in Callers :
        \/ GetLock(t)
        \/ GetCheck(t)
        \/ GetCreate(t)
        \/ GetReturn(t)
        \/ GetUnlock(t)

SingletonSpec == SingletonInit /\ [][SingletonNext]_vars

\* C24: however the calls of Get interleave, at most one instance is
\* constructed and every call that returned gave that instance; a thread
\* between the check and the return owns the singleton critical section, and
\* a thread outside Get does not.
C24_OneInstanceUnderLock ==
    /\ singleton.constructed <= 1
    /\ \A t \in Callers :
        /\ getters[t].returned =>
                getters[t].result = 1 /\ singleton.m_Instance = 1
        /\ getters[t].pc # "idle" => singleton.m_SingletonCS = t
        /\ getters[t].pc = "idle" => singleton.m_SingletonCS # t

\* Every thread has called Get and has the one instance that was made, and
\* the critical section is free.
C24_Witness ==
    /\ singleton.constructed = 1
    /\ singleton.m_SingletonCS = 0
    /\ \A t \in Callers :
        /\ getters[t].pc = "idle"
        /\ getters[t].returned
        /\ getters[t].result = singleton.m_Instance


-----------------------------------------------------------------------------
\* CNSudoResourceManagement (NSudo.cpp, lines 108-160) and its one-time
\* initialization.  A path is a sequence of characters; M2GetCurrentProcess-
\* ModulePath returns the full path of the executable, which contains a
\* backslash, or the empty string when it fails.

MaxPathLen == 3

MaxCalls == 3

PathChars == {"\\", "a", "b"}

Range(s) == {s[i] : i \in DOMAIN s}

ModulePaths ==
    {p \in SeqsUpTo(PathChars, MaxPathLen) : p = <<>> \/ "\\" \in Range(p)}

\* What GetModuleHandleW(nullptr) can return.
ModuleHandles == {1, 2}

\* The object as its default member initializers leave it.  computed counts
\* how often GetModuleHandleW and M2GetCurrentProcessModulePath were called
\* for it; stopped records that the process was stopped by a fault inside
\* Initialize.
Constructed ==
    [m_IsInitialized |-> FALSE, m_Instance |-> 0, m_ExePath |-> <<>>,
     m_AppPath |-> <<>>, computed |-> 0, stopped |-> FALSE]

\* wcsrchr(s, L'\\'): the place of the last backslash, 0 for a null result.
wcsrchr(s) ==
    IF "\\" \in Range(s)
    THEN CHOOSE i \in DOMAIN s :
            s[i] = "\\" /\ \A j \in DOMAIN s : s[j] = "\\" => j <= i
    ELSE 0

\* Lines 148-150: the copy of the path, a terminator stored over its last
\* backslash, and the string resized to what precedes the terminator.
AppPathOf(path) == SubSeq(path, 1, wcsrchr(path) - 1)

\* An Initialize that computes the fields on every call.
Initialize_EveryCall(R, hInstance, path) ==
    IF wcsrchr(path) = 0
    THEN [R EXCEPT !.m_Instance = hInstance, !.m_ExePath = path,
                   !.m_AppPath = path, !.computed = @ + 1, !.stopped = TRUE]
    ELSE [R EXCEPT !.m_IsInitialized = TRUE, !.m_Instance = hInstance,
                   !.m_ExePath = path, !.m_AppPath = AppPathOf(path),
                   !.computed = @ + 1]

\* Initialize(), lines 140-154, given what GetModuleHandleW and
\* M2GetCurrentProcessModulePath return if they are called.  When the path
\* holds no backslash, line 149 stores through the null pointer wcsrchr
\* returned: the store faults and the process is stopped there.
Initialize(R, hInstance, path) ==
    IF R.m_IsInitialized THEN R
    ELSE IF wcsrchr(path) = 0
    THEN [R EXCEPT !.m_Instance = hInstance, !.m_ExePath = path,
                   !.m_AppPath = path, !.computed = @ + 1, !.stopped = TRUE]
    ELSE [R EXCEPT !.m_IsInitialized = TRUE, !.m_Instance = hInstance,
                   !.m_ExePath = path, !.m_AppPath = AppPathOf(path),
                   !.computed = @ + 1]

\* One call of g_ResourceManagement.Initialize(); initializeCalls counts the
\* calls made.
InitializeCall ==
    /\ ~g_ResourceManagement.stopped
    /\ initializeCalls < MaxCalls
    /\ \E hInstance \in ModuleHandles, path \in ModulePaths :
        g_ResourceManagement' =
            Initialize(g_ResourceManagement, hInstance, path)
    /\ initializeCalls' = initializeCalls + 1
    /\ UNCHANGED <<pipelineVars, wrapperVars, threadsVars, libraryVars,
                   mainVars>>

ResourceInit ==
    /\ NoPipeline
    /\ NoWrapper
    /\ NoThreads
    /\ NoLibrary
    /\ main = <<>>
    /\ g_ResourceManagement = Constructed
    /\ initializeCalls = 0

ResourceNext == InitializeCall

ResourceSpec == ResourceInit /\ [][ResourceNext]_vars


\* The fields of the object that Initialize computes.
Fields(R) == <<R.m_IsInitialized, R.m_Instance, R.m_ExePath, R.m_AppPath>>

\* C26: over any number of calls of Initialize the instance, the executable
\* path and the application path are computed at most once, by the first
\* call, and a call made once the object is initialized changes no field;
\* the fields an initialized object holds are the module handle, the module
\* path, and that path up to its last backslash.
C26_InitializedOnce ==
    /\ [](/\ g_ResourceManagement.computed <= 1
          /\ (g_ResourceManagement.computed = 1) <=> (initializeCalls >= 1)
          /\ g_ResourceManagement.m_IsInitialized =>
                /\ g_ResourceManagement.m_Instance \in ModuleHandles
                /\ g_ResourceManagement.m_AppPath =
                        AppPathOf(g_ResourceManagement.m_ExePath))
    /\ [][g_ResourceManagement.m_IsInitialized =>
            Fields(g_ResourceManagement') = Fields(g_ResourceManagement)]_vars

\* Initialize was called three times on an object whose fields the first call
\* computed: the application path is the directory of the executable path.
C26_Witness ==
    /\ initializeCalls = MaxCalls
    /\ g_ResourceManagement.m_IsInitialized
    /\ g_ResourceManagement.computed = 1
    /\ g_ResourceManagement.m_ExePath = <<"a", "\\", "b">>
    /\ g_ResourceManagement.m_AppPath = <<"a">>


-----------------------------------------------------------------------------
\* NSudoMain (NSudo.cpp, lines 164-190), the program's entry point, with the
\* call of NSudoCreateProcess it makes run step by step as above.
\* M2SpiltCommandLineEx is declared only: what it stores in
\* UnresolvedCommandLine is an input of the run, any command line.

\* The exit code of a process stopped by an access violation.
STATUS_ACCESS_VIOLATION == -1073741819

\* Lines 166-168: CoInitializeEx, whose result is not read, and
\* g_ResourceManagement.Initialize().  A fault in Initialize ends the process.
MainInitialize ==
    /\ main.pc = "L166"
    /\ \E hInstance \in ModuleHandles, path \in ModulePaths :
        LET R == Initialize(g_ResourceManagement, hInstance, path) IN
        /\ g_ResourceManagement' = R
        /\ main' = IF R.stopped
                   THEN [main EXCEPT !.pc = "Stopped",
                                     !.exitCode = STATUS_ACCESS_VIOLATION]
                   ELSE [main EXCEPT !.pc = "L172"]
    /\ initializeCalls' = initializeCalls + 1
    /\ UNCHANGED <<pipelineVars, wrapperVars, threadsVars, libraryVars>>

\* Lines 170-172: the two strings and M2SpiltCommandLineEx, which fills them.
MainSplitCommandLine ==
    /\ main.pc = "L172"
    /\ main' = [main EXCEPT !.pc = "L174",
                            !.UnresolvedCommandLine = main.input]
    /\ UNCHANGED <<pipelineVars, wrapperVars, threadsVars, libraryVars,
                   resourceVars>>

\* Lines 174-177: if (UnresolvedCommandLine.empty()) return 0.
MainFirstCheck ==
    /\ main.pc = "L174"
    /\ main' = IF main.UnresolvedCommandLine = <<>>
               THEN [main EXCEPT !.pc = "Exited", !.exitCode = 0]
               ELSE [main EXCEPT !.pc = "L181"]
    /\ UNCHANGED <<pipelineVars, wrapperVars, threadsVars, libraryVars,
                   resourceVars>>

\* Lines 181-184: if (UnresolvedCommandLine.empty()) return -1.
MainSecondCheck ==
    /\ main.pc = "L181"
    /\ main' = IF main.UnresolvedCommandLine = <<>>
               THEN [main EXCEPT !.pc = "Exited", !.exitCode = -1]
               ELSE [main EXCEPT !.pc = "L186"]
    /\ UNCHANGED <<pipelineVars, wrapperVars, threadsVars, libraryVars,
                   resourceVars>>

\* Line 186: NSudoCreateProcess is entered with the unresolved command line.
MainCall ==
    /\ main.pc = "L186"
    /\ pc = "Idle"
    /\ pc' = "L154"
    /\ CommandLine' = main.UnresolvedCommandLine
    /\ main' = [main EXCEPT !.pc = "InCall", !.calls = @ + 1]
    /\ UNCHANGED <<retval, local, handles, tokens, threadToken, memory,
                   process, trace>>
    /\ UNCHANGED <<wrapperVars, threadsVars, libraryVars, resourceVars>>

\* Line 186: NSudoCreateProcess has returned; its status is not read.
MainCallReturns ==
    /\ main.pc = "InCall"
    /\ Returned
    /\ main' = [main EXCEPT !.pc = "L188"]
    /\ UNCHANGED <<pipelineVars, wrapperVars, threadsVars, libraryVars,
                   resourceVars>>

\* Line 188: return 0.
MainReturn ==
    /\ main.pc = "L188"
    /\ main' = [main EXCEPT !.pc = "Exited", !.exitCode = 0]
    /\ UNCHANGED <<pipelineVars, wrapperVars, threadsVars, libraryVars,
                   resourceVars>>

MainInit ==
    /\ pc = "Idle"
    /\ retval = S_OK
    /\ local = InitialLocals
    /\ CommandLine = <<>>
    /\ handles = <<>>
    /\ \E s \in 0..MaxSession : tokens = InitialTokens(s)
    /\ threadToken = 0
    /\ memory = [environment |-> "none", environmentFrees |-> 0,
                 environmentValue |-> NoEnvironment,
                 string |-> "none", stringFrees |-> 0, stringValue |-> <<>>]
    /\ process = NoProcess
    /\ trace = <<>>
    /\ NoWrapper
    /\ NoThreads
    /\ NoLibrary
    /\ \E input \in CommandLines :
        main = [pc |-> "L166", input |-> input, UnresolvedCommandLine |-> <<>>,
                calls |-> 0, exitCode |-> 0]
    /\ g_ResourceManagement = Constructed
    /\ initializeCalls = 0

MainNext ==
    \/ MainInitialize
    \/ MainSplitCommandLine
    \/ MainFirstCheck
    \/ MainSecondCheck
    \/ MainCall
    \/ NSudoCreateProcess
    \/ ProcessExits
    \/ MainCallReturns
    \/ MainReturn

MainSpec == MainInit /\ [][MainNext]_vars

\* C25: a run of NSudoMain invokes NSudoCreateProcess at most once: once the
\* run has ended it has invoked it exactly once if the unresolved command
\* line is not empty and never if it is empty, and the exit code is 0
\* whatever status NSudoCreateProcess returned; no run ends with -1.
C25_OneAttemptExitZero ==
    /\ main.calls <= 1
    /\ main.input = <<>> => main.calls = 0
    /\ main.pc \in {"Exited", "Stopped"} =>
        /\ main.calls = (IF main.input = <<>> THEN 0 ELSE 1)
        /\ main.exitCode = 0

=============================================================================
